---- MODULE Spec2Model ----
(***************************************************************************)
(* Workflow state machine of the data-enrichment orchestrator:             *)
(*   src/src/orchestrator.py  the sequencer and the dispatcher (Prefect)   *)
(*   src/src/worker.py        the senders and receivers (Modal)            *)
(*   src/src/db/models.py     the tables                                   *)
(* Every SQL statement is one transaction on its own connection, so every  *)
(* statement is one atomic step and the steps of the ticks, senders and    *)
(* receivers interleave freely.                                            *)
(***************************************************************************)
EXTENDS Integers, Sequences, FiniteSets, TLC

VARIABLES
    batches,                    \* batches.blueprint, per batch id
    workflow_states,            \* the workflow_states table; a row's id is its index
    company_workflow_states,    \* company_workflow_states, per (company_id, workflow_slug)
    enrichment_results,         \* number of enrichment_results rows per (item, slug)
    company_enrichment_results, \* number of company_enrichment_results rows per (company, slug)
    normalized_people,          \* items that have a normalized_people row
    batch_size,                 \* the batch_size the scheduler passes to orchestrator_main
    ticks,                      \* the orchestrator_main runs, one record per scheduler slot
    senders,                    \* the running executor invocations (Modal spawns)
    receivers,                  \* the running receiver invocations
    clay,                       \* per (item, step): webhook calls accepted / answered by Clay
    audit                       \* per row id: how often a claim, a mark and a spawn succeeded

vars == <<batches, batch_size, workflow_states, company_workflow_states, enrichment_results,
          company_enrichment_results, normalized_people, ticks, senders,
          receivers, clay, audit>>

-----------------------------------------------------------------------------
(* Bounds of the model *)

\* the largest batch_size a tick is started with
MaxBatchSize == 2

\* how many calls of a receiver endpoint arrive that answer no call of a sender
MaxUnsolicited == 1

\* the scheduler slots: two runs of orchestrator_main can overlap
Ticks == {"t1", "t2"}

Items == {"i1", "i2"}
BatchIds == {"b1", "b2"}

\* batch_items.batch_id: i2 belongs to an earlier batch
batch_items == [i \in Items |-> IF i = "i1" THEN "b1" ELSE "b2"]

\* normalized_people.company_id of the row the split step writes for an item:
\* both items resolve to the same company
company_of == [i \in Items |-> "c1"]
Companies == {"c1"}

NULL == "NULL"

\* a NULL timestamp; a set timestamp ts is <<ts>>
NullTime == <<>>

-----------------------------------------------------------------------------
(* The vocabulary *)

WorkflowStatus == {"PENDING", "QUEUED", "IN_PROGRESS", "COMPLETED", "FAILED"}

NORMALIZE == "normalize_all_core_values"
SPLIT == "split_raw_apollo_scrape_data_into_two_tables"
ENRICH == "enrich_company_via_waterfall_in_clay"

StepNames == {NORMALIZE, SPLIT, ENRICH}

\* a step whose receiver is a plain function (called by the callback tooling)
NORMALIZE_DOMAIN == "normalize_company_domain"

\* a step name that has no enrichment_registry row (or one without modal_sender_fn)
UNREGISTERED == "unregistered_step"

\* a registry lookup that falls back to a default sender for an unknown slug
modal_sender_fn_default(step_name) ==
    CASE step_name = NORMALIZE -> "start_normalize_all_core_values"
      [] step_name = SPLIT -> "run_split_raw_apollo_scrape_data"
      [] step_name = ENRICH -> "start_enrich_company_via_waterfall_in_clay"
      [] step_name = NORMALIZE_DOMAIN -> "start_normalize_company_domain"
      [] OTHER -> "start_normalize_all_core_values"

\* enrichment_registry.modal_sender_fn by slug; NULL when the LEFT JOIN finds no row
modal_sender_fn(step_name) ==
    CASE step_name = NORMALIZE -> "start_normalize_all_core_values"
      [] step_name = SPLIT -> "run_split_raw_apollo_scrape_data"
      [] step_name = ENRICH -> "start_enrich_company_via_waterfall_in_clay"
      [] step_name = NORMALIZE_DOMAIN -> "start_normalize_company_domain"
      [] OTHER -> NULL

\* the senders of the shape config, batch item, POST, IN_PROGRESS
AsyncSenders == {"start_normalize_all_core_values", "start_normalize_company_domain"}

\* the blueprint of the batch the main specification runs
MainBlueprint == <<NORMALIZE, SPLIT, ENRICH>>

\* blueprints that end with a step nobody registered, and have no entity step
DriftBlueprint == <<NORMALIZE, SPLIT, UNREGISTERED>>
ShortBlueprint == <<NORMALIZE, UNREGISTERED>>

-----------------------------------------------------------------------------
(* The store: workflow_states *)

RowIds(rows) == 1 .. Len(rows)

\* the ids of the rows with this (batch_id, item_id, step_name)
RowsOf(rows, batch_id, item_id, step_name) ==
    {id \in RowIds(rows) : /\ rows[id].batch_id = batch_id
                           /\ rows[id].item_id = item_id
                           /\ rows[id].step_name = step_name}

NewRow(batch_id, item_id, step_name, status, meta, ts) ==
    [batch_id |-> batch_id, item_id |-> item_id, step_name |-> step_name,
     status |-> status, updated_at |-> ts, advanced_at |-> NullTime, meta |-> meta]

\* the ids of S, oldest updated_at first (ORDER BY updated_at ASC); ties by id
RECURSIVE OrderByUpdatedAt(_, _)
OrderByUpdatedAt(rows, S) ==
    IF S = {} THEN <<>>
    ELSE LET first == CHOOSE id \in S :
                        \A other \in S :
                            \/ rows[id].updated_at < rows[other].updated_at
                            \/ /\ rows[id].updated_at = rows[other].updated_at
                               /\ id <= other
         IN <<first>> \o OrderByUpdatedAt(rows, S \ {first})

\* Timestamps are only ever compared (ORDER BY updated_at), so the table keeps each
\* updated_at as its rank among the updated_at values of the table, and the clock
\* reads one more than the newest of them.
Clock(rows) == Cardinality({rows[id].updated_at : id \in RowIds(rows)}) + 1

Ranked(rows) ==
    [id \in RowIds(rows) |->
        [rows[id] EXCEPT !.updated_at =
            Cardinality({rows[j].updated_at : j \in RowIds(rows)}
                        \cap (0 .. rows[id].updated_at))]]

Limit(seq, n) == SubSeq(seq, 1, IF Len(seq) < n THEN Len(seq) ELSE n)

\* fetch_pending_items with ORDER BY updated_at DESC
fetch_pending_items_newest_first(rows, limit) ==
    LET oldest_first ==
            OrderByUpdatedAt(rows, {id \in RowIds(rows) : rows[id].status = "PENDING"})
    IN Limit([k \in 1 .. Len(oldest_first) |-> oldest_first[Len(oldest_first) + 1 - k]],
             limit)

\* SELECT ... WHERE status = 'PENDING' ORDER BY updated_at ASC LIMIT batch_size
fetch_pending_items(rows, limit) ==
    Limit(OrderByUpdatedAt(rows, {id \in RowIds(rows) : rows[id].status = "PENDING"}),
          limit)

\* update_state_to_queued that also notes the claim in meta
update_state_to_queued_annotating(rows, id, ts) ==
    IF rows[id].status = "PENDING"
    THEN [rows |-> [rows EXCEPT ![id].status = "QUEUED", ![id].updated_at = ts,
                                ![id].meta = "queued"],
          updated |-> TRUE]
    ELSE [rows |-> rows, updated |-> FALSE]

\* update_state_to_queued without "AND status = 'PENDING'" (a blind write)
update_state_to_queued_blind(rows, id, ts) ==
    [rows |-> [rows EXCEPT ![id].status = "QUEUED", ![id].updated_at = ts],
     updated |-> TRUE]

\* UPDATE ... SET status = 'QUEUED', updated_at WHERE id AND status = 'PENDING'
update_state_to_queued(rows, id, ts) ==
    IF rows[id].status = "PENDING"
    THEN [rows |-> [rows EXCEPT ![id].status = "QUEUED", ![id].updated_at = ts],
          updated |-> TRUE]
    ELSE [rows |-> rows, updated |-> FALSE]

\* fetch_completed_for_advancement without "AND advanced_at IS NULL"
fetch_completed_any(rows, limit) ==
    Limit(OrderByUpdatedAt(rows, {id \in RowIds(rows) : rows[id].status = "COMPLETED"}),
          limit)

\* SELECT ... WHERE status = 'COMPLETED' AND advanced_at IS NULL ORDER BY updated_at LIMIT
fetch_completed_for_advancement(rows, limit) ==
    Limit(OrderByUpdatedAt(rows, {id \in RowIds(rows) :
                                    /\ rows[id].status = "COMPLETED"
                                    /\ rows[id].advanced_at = NullTime}),
          limit)

\* SELECT blueprint FROM batches WHERE id; [] when there is none
get_batch_blueprint(bs, batch_id) ==
    IF batch_id \in DOMAIN bs THEN bs[batch_id] ELSE <<>>

\* spawn_next_step as a plain INSERT on a table without the unique constraint
spawn_next_step_plain(rows, item_id, batch_id, next_step, ts) ==
    [rows |-> Append(rows, NewRow(batch_id, item_id, next_step, "PENDING", NULL, ts)),
     created |-> TRUE]

\* spawn_next_step with ON CONFLICT ... DO UPDATE SET status = 'PENDING', meta = NULL
spawn_next_step_reset(rows, item_id, batch_id, next_step, ts) ==
    LET hit == RowsOf(rows, batch_id, item_id, next_step)
    IN IF hit = {}
       THEN [rows |-> Append(rows, NewRow(batch_id, item_id, next_step, "PENDING",
                                          NULL, ts)),
             created |-> TRUE]
       ELSE [rows |-> [id \in RowIds(rows) |->
                         IF id \in hit
                         THEN [rows[id] EXCEPT !.status = "PENDING", !.meta = NULL]
                         ELSE rows[id]],
             created |-> FALSE]

\* spawn_next_step whose INSERT is not committed
spawn_next_step_uncommitted(rows, item_id, batch_id, next_step, ts) ==
    [rows |-> rows, created |-> RowsOf(rows, batch_id, item_id, next_step) = {}]

\* INSERT ... 'PENDING', NOW() ON CONFLICT (batch_id, item_id, step_name) DO NOTHING
spawn_next_step(rows, item_id, batch_id, next_step, ts) ==
    IF RowsOf(rows, batch_id, item_id, next_step) = {}
    THEN [rows |-> Append(rows, NewRow(batch_id, item_id, next_step, "PENDING", NULL, ts)),
          created |-> TRUE]
    ELSE [rows |-> rows, created |-> FALSE]

\* mark_state_as_advanced without "AND advanced_at IS NULL" (a blind write)
mark_state_as_advanced_blind(rows, id, ts) ==
    [rows |-> [rows EXCEPT ![id].advanced_at = <<ts>>], updated |-> TRUE]

\* UPDATE ... SET advanced_at WHERE id AND advanced_at IS NULL
mark_state_as_advanced(rows, id, ts) ==
    IF rows[id].advanced_at = NullTime
    THEN [rows |-> [rows EXCEPT ![id].advanced_at = <<ts>>], updated |-> TRUE]
    ELSE [rows |-> rows, updated |-> FALSE]

\* _update_state as a statement that replaces the row (advanced_at back to NULL)
_update_state_replacing(rows, item_id, step_name, status, meta, ts) ==
    LET batch_id == batch_items[item_id]
        hit == RowsOf(rows, batch_id, item_id, step_name)
    IN IF hit = {}
       THEN Append(rows, NewRow(batch_id, item_id, step_name, status, meta, ts))
       ELSE [id \in RowIds(rows) |->
                IF id \in hit
                THEN NewRow(batch_id, item_id, step_name, status, meta, ts)
                ELSE rows[id]]

\* _update_state as a plain INSERT on a table without the unique constraint
_update_state_plain(rows, item_id, step_name, status, meta, ts) ==
    Append(rows, NewRow(batch_items[item_id], item_id, step_name, status, meta, ts))

\* INSERT ... ON CONFLICT (batch_id, item_id, step_name)
\*   DO UPDATE SET status, meta, updated_at     (advanced_at is left alone)
_update_state(rows, item_id, step_name, status, meta, ts) ==
    LET batch_id == batch_items[item_id]
        hit == RowsOf(rows, batch_id, item_id, step_name)
    IN IF hit = {}
       THEN Append(rows, NewRow(batch_id, item_id, step_name, status, meta, ts))
       ELSE [id \in RowIds(rows) |->
                IF id \in hit
                THEN [rows[id] EXCEPT !.status = status, !.meta = meta, !.updated_at = ts]
                ELSE rows[id]]

\* list.index(current_step): the first position, 0 for ValueError
RECURSIVE IndexFrom(_, _, _)
IndexFrom(blueprint, step_name, k) ==
    IF k > Len(blueprint) THEN 0
    ELSE IF blueprint[k] = step_name THEN k
    ELSE IndexFrom(blueprint, step_name, k + 1)

\* a lookup that takes a step it does not find for the first step
blueprint_index_first(blueprint, step_name) ==
    IF IndexFrom(blueprint, step_name, 1) = 0 THEN 1
    ELSE IndexFrom(blueprint, step_name, 1)

\* a lookup that returns the last position of the step, 0 when there is none
blueprint_index_last(blueprint, step_name) ==
    LET at == {k \in 1 .. Len(blueprint) : blueprint[k] = step_name}
    IN IF at = {} THEN 0 ELSE CHOOSE k \in at : \A j \in at : j <= k

blueprint_index(blueprint, step_name) == IndexFrom(blueprint, step_name, 1)

-----------------------------------------------------------------------------
(* The store: company_workflow_states and the result tables *)

NoRow == [status |-> NULL, meta |-> NULL]

\* a lookup that reports a row only when it is COMPLETED
_get_company_workflow_status_done_only(cws, company_id, workflow_slug) ==
    IF cws[company_id][workflow_slug].status = "COMPLETED" THEN "COMPLETED" ELSE NULL

\* a lookup that never finds the company's row
_get_company_workflow_status_absent(cws, company_id, workflow_slug) == NULL

\* SELECT status FROM company_workflow_states WHERE company_id AND workflow_slug
_get_company_workflow_status(cws, company_id, workflow_slug) ==
    cws[company_id][workflow_slug].status

\* an upsert that sets the status and drops the meta
_set_company_workflow_status_unrecorded(cws, company_id, workflow_slug, status, meta) ==
    [cws EXCEPT ![company_id][workflow_slug] = [status |-> status, meta |-> NULL]]

\* INSERT ... ON CONFLICT (company_id, workflow_slug) DO UPDATE SET status, meta, updated_at
_set_company_workflow_status(cws, company_id, workflow_slug, status, meta) ==
    [cws EXCEPT ![company_id][workflow_slug] = [status |-> status, meta |-> meta]]

\* _record_result whose INSERT is not committed
_record_result_uncommitted(results, item_id, workflow_slug) == results

\* INSERT INTO enrichment_results: one more row for (item, slug)
_record_result(results, item_id, workflow_slug) ==
    [results EXCEPT ![item_id][workflow_slug] = @ + 1]

\* INSERT INTO company_enrichment_results as a store that keeps one row per
\* (company, slug)
_record_company_result_replacing(results, company_id, workflow_slug) ==
    [results EXCEPT ![company_id][workflow_slug] = 1]

\* INSERT INTO company_enrichment_results: one more row for (company, slug)
_record_company_result(results, company_id, workflow_slug) ==
    [results EXCEPT ![company_id][workflow_slug] = @ + 1]

\* SELECT company_id FROM normalized_people WHERE batch_item_id
_get_company_id_for_item(people, item_id) ==
    IF item_id \in people THEN company_of[item_id] ELSE NULL

-----------------------------------------------------------------------------
(* Bookkeeping per row (not program state): how often update_state_to_queued  *)
(* and mark_state_as_advanced returned True, and how often an executor was    *)
(* spawned for the row                                                        *)

NoAudit == [claim_wins |-> 0, adv_wins |-> 0, spawns |-> 0]

\* one audit record per row, new rows start at zero
Pad(a, rows) == [id \in RowIds(rows) |-> IF id <= Len(a) THEN a[id] ELSE NoAudit]

-----------------------------------------------------------------------------
(* orchestrator_main: the sequencer, then the dispatcher *)

\* datetime.now(timezone.utc) / NOW()
Now == Clock(workflow_states)

NoSeqResults == [processed |-> 0, advanced |-> 0, finished |-> 0, errors |-> 0]
NoDispResults == [processed |-> 0, dispatched |-> 0, queued |-> 0, skipped |-> 0,
                  failed |-> 0]

\* spawned: what spawn_next_step returned for the item at hand;
\* marked: the row of the last mark_state_as_advanced call of the run and what it
\* returned (the code drops the value), <<>> before the first call
IdleTick == [pc |-> "idle", items |-> <<>>, idx |-> 0, spawned |-> FALSE,
             marked |-> <<>>,
             sequencer |-> NoSeqResults, dispatcher |-> NoDispResults]

\* the scheduler (or the advancement trigger) starts a run
orchestrator_main(t) ==
    /\ ticks[t].pc = "idle"
    /\ ticks' = [ticks EXCEPT ![t] = [IdleTick EXCEPT !.pc = "seq_fetch"]]
    /\ UNCHANGED <<batches, batch_size, workflow_states, company_workflow_states,
                   enrichment_results, company_enrichment_results, normalized_people,
                   senders, receivers, clay, audit>>

\* the for loop moves to the next item, or the flow returns
NextItem(tk, loop, after) ==
    IF tk.idx < Len(tk.items)
    THEN [tk EXCEPT !.idx = @ + 1, !.pc = loop]
    ELSE IF after = "idle" THEN IdleTick
    ELSE [tk EXCEPT !.idx = 0, !.items = <<>>, !.pc = after]

\* advance_completed_items: fetch_completed_for_advancement
SeqFetch(t) ==
    /\ ticks[t].pc = "seq_fetch"
    /\ LET completed_items ==
               fetch_completed_for_advancement(workflow_states, batch_size)
       IN ticks' = [ticks EXCEPT ![t] =
                       IF completed_items = <<>>
                       THEN [@ EXCEPT !.pc = "disp_fetch"]
                       ELSE [@ EXCEPT !.pc = "seq_item", !.items = completed_items,
                                      !.idx = 1]]
    /\ UNCHANGED <<batches, batch_size, workflow_states, company_workflow_states,
                   enrichment_results, company_enrichment_results, normalized_people,
                   senders, receivers, clay, audit>>

\* what a run remembers of its call mark_state_as_advanced(id)
Marked(id) == <<id, mark_state_as_advanced(workflow_states, id, Now).updated>>

\* mark_state_as_advanced and its bookkeeping
MarkAdvanced(id) ==
    LET r == mark_state_as_advanced(workflow_states, id, Now)
    IN /\ workflow_states' = Ranked(r.rows)
       /\ audit' = [audit EXCEPT ![id].adv_wins = @ + (IF r.updated THEN 1 ELSE 0)]

\* SeqItem with "if current_index + 1 <= len(blueprint)": for the last step
\* blueprint[current_index + 1] raises IndexError, which the loop's except counts
SeqItem_off_by_one(t) ==
    /\ ticks[t].pc = "seq_item"
    /\ LET tk == ticks[t]
           id == tk.items[tk.idx]
           row == workflow_states[id]
           blueprint == get_batch_blueprint(batches, row.batch_id)
           current_index == blueprint_index(blueprint, row.step_name)
           counted == [tk EXCEPT !.sequencer.processed = @ + 1]
       IN IF blueprint = <<>> \/ current_index = 0
          THEN /\ MarkAdvanced(id)
               /\ ticks' = [ticks EXCEPT ![t] =
                               NextItem([counted EXCEPT !.sequencer.finished = @ + 1,
                                                        !.marked = Marked(id)],
                                        "seq_item", "disp_fetch")]
          ELSE IF current_index = Len(blueprint)
          THEN /\ ticks' = [ticks EXCEPT ![t] =
                               NextItem([counted EXCEPT !.sequencer.errors = @ + 1],
                                        "seq_item", "disp_fetch")]
               /\ UNCHANGED <<workflow_states, audit>>
          ELSE LET r == spawn_next_step(workflow_states, row.item_id, row.batch_id,
                                        blueprint[current_index + 1], Now)
               IN /\ workflow_states' = Ranked(r.rows)
                  /\ audit' = Pad(audit, r.rows)
                  /\ ticks' = [ticks EXCEPT ![t] =
                                  [counted EXCEPT !.sequencer.advanced = @ + 1,
                                                  !.spawned = r.created,
                                                  !.pc = "seq_mark"]]
    /\ UNCHANGED <<batches, batch_size, company_workflow_states, enrichment_results,
                   company_enrichment_results, normalized_people, senders,
                   receivers, clay>>

\* advance_completed_items, one item of the loop up to its first write:
\* no blueprint or step not in it -> mark advanced (finished);
\* a next step -> spawn_next_step; the last step -> mark advanced (finished)
SeqItem(t) ==
    /\ ticks[t].pc = "seq_item"
    /\ LET tk == ticks[t]
           id == tk.items[tk.idx]
           row == workflow_states[id]
           blueprint == get_batch_blueprint(batches, row.batch_id)
           current_index == blueprint_index(blueprint, row.step_name)
           counted == [tk EXCEPT !.sequencer.processed = @ + 1]
       IN IF blueprint = <<>> \/ current_index = 0 \/ current_index = Len(blueprint)
          THEN /\ MarkAdvanced(id)
               /\ ticks' = [ticks EXCEPT ![t] =
                               NextItem([counted EXCEPT !.sequencer.finished = @ + 1,
                                                        !.marked = Marked(id)],
                                        "seq_item", "disp_fetch")]
          ELSE LET r == spawn_next_step(workflow_states, row.item_id, row.batch_id,
                                        blueprint[current_index + 1], Now)
               IN /\ workflow_states' = Ranked(r.rows)
                  /\ audit' = Pad(audit, r.rows)
                  /\ ticks' = [ticks EXCEPT ![t] =
                                  [counted EXCEPT !.sequencer.advanced = @ + 1,
                                                  !.spawned = r.created,
                                                  !.pc = "seq_mark"]]
    /\ UNCHANGED <<batches, batch_size, company_workflow_states, enrichment_results,
                   company_enrichment_results, normalized_people, senders,
                   receivers, clay>>

\* SeqMark of a flow that returns after the sequencer and leaves the dispatcher to
\* the next run
SeqMark_returns(t) ==
    /\ ticks[t].pc = "seq_mark"
    /\ MarkAdvanced(ticks[t].items[ticks[t].idx])
    /\ ticks' = [ticks EXCEPT ![t] =
                    NextItem([@ EXCEPT !.spawned = FALSE,
                                       !.marked = Marked(ticks[t].items[ticks[t].idx])],
                             "seq_item", "idle")]
    /\ UNCHANGED <<batches, batch_size, company_workflow_states, enrichment_results,
                   company_enrichment_results, normalized_people, senders,
                   receivers, clay>>

\* SeqMark of a loop that marks the row only when spawn_next_step created the row
SeqMark_when_spawned(t) ==
    /\ ticks[t].pc = "seq_mark"
    /\ IF ticks[t].spawned
       THEN MarkAdvanced(ticks[t].items[ticks[t].idx])
       ELSE UNCHANGED <<workflow_states, audit>>
    /\ ticks' = [ticks EXCEPT ![t] =
                    NextItem([@ EXCEPT !.spawned = FALSE], "seq_item", "disp_fetch")]
    /\ UNCHANGED <<batches, batch_size, company_workflow_states, enrichment_results,
                   company_enrichment_results, normalized_people, senders,
                   receivers, clay>>

\* advance_completed_items: "Mark as advanced regardless"
SeqMark(t) ==
    /\ ticks[t].pc = "seq_mark"
    /\ MarkAdvanced(ticks[t].items[ticks[t].idx])
    /\ ticks' = [ticks EXCEPT ![t] =
                    NextItem([@ EXCEPT !.spawned = FALSE,
                                       !.marked = Marked(ticks[t].items[ticks[t].idx])],
                             "seq_item", "disp_fetch")]
    /\ UNCHANGED <<batches, batch_size, company_workflow_states, enrichment_results,
                   company_enrichment_results, normalized_people, senders,
                   receivers, clay>>

\* dispatch_pending_items: fetch_pending_items
DispFetch(t) ==
    /\ ticks[t].pc = "disp_fetch"
    /\ LET pending_items == fetch_pending_items(workflow_states, batch_size)
       IN ticks' = [ticks EXCEPT ![t] =
                       IF pending_items = <<>>
                       THEN IdleTick
                       ELSE [@ EXCEPT !.pc = "disp_claim", !.items = pending_items,
                                      !.idx = 1, !.marked = <<>>]]
    /\ UNCHANGED <<batches, batch_size, workflow_states, company_workflow_states,
                   enrichment_results, company_enrichment_results, normalized_people,
                   senders, receivers, clay, audit>>

\* DispClaim without "if not queued: continue": the run dispatches whatever it fetched
DispClaim_no_continue(t) ==
    /\ ticks[t].pc = "disp_claim"
    /\ LET tk == ticks[t]
           id == tk.items[tk.idx]
           r == update_state_to_queued(workflow_states, id, Now)
       IN /\ workflow_states' = Ranked(r.rows)
          /\ audit' = [audit EXCEPT ![id].claim_wins = @ + (IF r.updated THEN 1 ELSE 0)]
          /\ ticks' = [ticks EXCEPT ![t] =
                          [tk EXCEPT !.dispatcher.queued = @ + 1, !.pc = "disp_send"]]
    /\ UNCHANGED <<batches, batch_size, company_workflow_states, enrichment_results,
                   company_enrichment_results, normalized_people, senders,
                   receivers, clay>>

\* dispatch_pending_items: queued = update_state_to_queued(workflow_state_id)
DispClaim(t) ==
    /\ ticks[t].pc = "disp_claim"
    /\ LET tk == ticks[t]
           id == tk.items[tk.idx]
           r == update_state_to_queued(workflow_states, id, Now)
       IN /\ workflow_states' = Ranked(r.rows)
          /\ audit' = [audit EXCEPT ![id].claim_wins = @ + (IF r.updated THEN 1 ELSE 0)]
          /\ ticks' = [ticks EXCEPT ![t] =
                          IF r.updated
                          THEN [tk EXCEPT !.dispatcher.queued = @ + 1, !.pc = "disp_send"]
                          ELSE [tk EXCEPT !.pc = "disp_skip"]]
    /\ UNCHANGED <<batches, batch_size, company_workflow_states, enrichment_results,
                   company_enrichment_results, normalized_people, senders,
                   receivers, clay>>

\* dispatch_pending_items: "if not queued: ... already picked up, skipping; continue"
DispSkip(t) ==
    /\ ticks[t].pc = "disp_skip"
    /\ ticks' = [ticks EXCEPT ![t] = NextItem(@, "disp_claim", "idle")]
    /\ UNCHANGED <<batches, batch_size, workflow_states, company_workflow_states,
                   enrichment_results, company_enrichment_results, normalized_people,
                   senders, receivers, clay, audit>>

\* the executor invocation fn.spawn(item_id) starts
NewSender(fn, item_id, step_name, call) ==
    [fn |-> fn, item_id |-> item_id, step_name |-> step_name, call |-> call,
     pc |-> "start", company_id |-> NULL, skipped |-> NULL]

\* DispSend with an unclaim: when fn.spawn raises, the row is set back to PENDING
DispSend_unclaims(t) ==
    /\ ticks[t].pc = "disp_send"
    /\ LET tk == ticks[t]
           id == tk.items[tk.idx]
           row == workflow_states[id]
           fn == modal_sender_fn(row.step_name)
           counted == [tk EXCEPT !.dispatcher.processed = @ + 1]
       IN IF fn = NULL
          THEN /\ ticks' = [ticks EXCEPT ![t] =
                               NextItem([counted EXCEPT !.dispatcher.skipped = @ + 1],
                                        "disp_claim", "idle")]
               /\ UNCHANGED <<senders, audit, workflow_states>>
          ELSE \E spawned \in BOOLEAN :
                 IF spawned
                 THEN /\ senders' = senders \cup
                             {NewSender(fn, row.item_id, row.step_name,
                                        audit[id].spawns + 1)}
                      /\ audit' = [audit EXCEPT ![id].spawns = @ + 1]
                      /\ ticks' = [ticks EXCEPT ![t] =
                                      NextItem([counted EXCEPT !.dispatcher.dispatched = @ + 1],
                                               "disp_claim", "idle")]
                      /\ UNCHANGED workflow_states
                 ELSE /\ ticks' = [ticks EXCEPT ![t] =
                                      NextItem([counted EXCEPT !.dispatcher.failed = @ + 1],
                                               "disp_claim", "idle")]
                      /\ workflow_states' =
                             [workflow_states EXCEPT ![id].status = "PENDING"]
                      /\ UNCHANGED <<senders, audit>>
    /\ UNCHANGED <<batches, batch_size, company_workflow_states,
                   enrichment_results, company_enrichment_results, normalized_people,
                   receivers, clay>>

\* dispatch_pending_items: dispatch_to_modal and the counting of its result.
\* No modal_sender_fn -> "skipped"; fn.spawn raises -> "failed"; else "dispatched".
DispSend(t) ==
    /\ ticks[t].pc = "disp_send"
    /\ LET tk == ticks[t]
           id == tk.items[tk.idx]
           row == workflow_states[id]
           fn == modal_sender_fn(row.step_name)
           counted == [tk EXCEPT !.dispatcher.processed = @ + 1]
       IN IF fn = NULL
          THEN /\ ticks' = [ticks EXCEPT ![t] =
                               NextItem([counted EXCEPT !.dispatcher.skipped = @ + 1],
                                        "disp_claim", "idle")]
               /\ UNCHANGED <<senders, audit>>
          ELSE \E spawned \in BOOLEAN :
                 IF spawned
                 THEN /\ senders' = senders \cup
                             {NewSender(fn, row.item_id, row.step_name,
                                        audit[id].spawns + 1)}
                      /\ audit' = [audit EXCEPT ![id].spawns = @ + 1]
                      /\ ticks' = [ticks EXCEPT ![t] =
                                      NextItem([counted EXCEPT !.dispatcher.dispatched = @ + 1],
                                               "disp_claim", "idle")]
                 ELSE /\ ticks' = [ticks EXCEPT ![t] =
                                      NextItem([counted EXCEPT !.dispatcher.failed = @ + 1],
                                               "disp_claim", "idle")]
                      /\ UNCHANGED <<senders, audit>>
    /\ UNCHANGED <<batches, batch_size, workflow_states, company_workflow_states,
                   enrichment_results, company_enrichment_results, normalized_people,
                   receivers, clay>>

-----------------------------------------------------------------------------
(* orchestrator_main when a statement fails (the store cannot be reached) *)

\* advance_completed_items: get_batch_blueprint, spawn_next_step or, for an item
\* without a next step, mark_state_as_advanced raises; "except Exception" counts
\* the error and the loop goes on
SeqItemRaises(t) ==
    /\ ticks[t].pc = "seq_item"
    /\ ticks' = [ticks EXCEPT ![t] =
                    NextItem([@ EXCEPT !.sequencer.processed = @ + 1,
                                       !.sequencer.errors = @ + 1],
                             "seq_item", "disp_fetch")]
    /\ UNCHANGED <<batches, batch_size, workflow_states, company_workflow_states,
                   enrichment_results, company_enrichment_results, normalized_people,
                   senders, receivers, clay, audit>>

\* advance_completed_items: mark_state_as_advanced raises after spawn_next_step
\* has returned; "except Exception" counts the error and the loop goes on
SeqMarkRaises(t) ==
    /\ ticks[t].pc = "seq_mark"
    /\ ticks' = [ticks EXCEPT ![t] =
                    NextItem([@ EXCEPT !.spawned = FALSE, !.sequencer.errors = @ + 1],
                             "seq_item", "disp_fetch")]
    /\ UNCHANGED <<batches, batch_size, workflow_states, company_workflow_states,
                   enrichment_results, company_enrichment_results, normalized_people,
                   senders, receivers, clay, audit>>

\* dispatch_pending_items: update_state_to_queued raises; the loop has no handler,
\* so the exception ends dispatch_pending_items and orchestrator_main
DispClaimRaises(t) ==
    /\ ticks[t].pc = "disp_claim"
    /\ ticks' = [ticks EXCEPT ![t] = IdleTick]
    /\ UNCHANGED <<batches, batch_size, workflow_states, company_workflow_states,
                   enrichment_results, company_enrichment_results, normalized_people,
                   senders, receivers, clay, audit>>

-----------------------------------------------------------------------------
(* worker.py: what the senders and receivers write *)

\* _update_state from a sender or receiver, with the clock and the bookkeeping
UpdateState(item_id, step_name, status, meta) ==
    /\ workflow_states' = Ranked(_update_state(workflow_states, item_id, step_name,
                                               status, meta, Now))
    /\ audit' = Pad(audit, workflow_states')

\* one step of a sender: it moves on, or it returns
Continue(s, next) == senders' = (senders \ {s}) \cup {next}
Return(s) == senders' = senders \ {s}

-----------------------------------------------------------------------------
(* start_normalize_all_core_values, start_normalize_company_domain (the plain *)
(* asynchronous senders)                                                      *)

\* no webhook_url, no batch item, or the POST raises: FAILED and return
AsyncSenderFails(s) ==
    /\ s.fn \in AsyncSenders
    /\ s.pc = "start"
    /\ UpdateState(s.item_id, s.step_name, "FAILED", "error")
    /\ Return(s)
    /\ UNCHANGED <<batches, batch_size, company_workflow_states, enrichment_results,
                   company_enrichment_results, normalized_people, ticks, receivers,
                   clay>>

\* requests.post(webhook_url) is accepted by Clay
AsyncSenderPosts(s) ==
    /\ s.fn \in AsyncSenders
    /\ s.pc = "start"
    /\ clay' = [clay EXCEPT ![s.item_id][s.step_name].sent = @ + 1]
    /\ Continue(s, [s EXCEPT !.pc = "set_in_progress"])
    /\ UNCHANGED <<batches, batch_size, workflow_states, company_workflow_states,
                   enrichment_results, company_enrichment_results, normalized_people,
                   ticks, receivers, audit>>

\* a sender that takes the accepted call for the result and completes the item
SenderSetsInProgress_completes(s) ==
    /\ s.pc = "set_in_progress"
    /\ UpdateState(s.item_id, s.step_name, "COMPLETED", "completed")
    /\ Return(s)
    /\ UNCHANGED <<batches, batch_size, company_workflow_states, enrichment_results,
                   company_enrichment_results, normalized_people, ticks, receivers,
                   clay>>

\* "Set state to IN_PROGRESS", the last statement of every asynchronous sender
SenderSetsInProgress(s) ==
    /\ s.pc = "set_in_progress"
    /\ UpdateState(s.item_id, s.step_name, "IN_PROGRESS", "sent")
    /\ Return(s)
    /\ UNCHANGED <<batches, batch_size, company_workflow_states, enrichment_results,
                   company_enrichment_results, normalized_people, ticks, receivers,
                   clay>>

-----------------------------------------------------------------------------
(* run_split_raw_apollo_scrape_data (the synchronous step) *)

\* reads the normalize result; none -> FAILED; else inserts the normalized rows
SplitReads(s) ==
    /\ s.fn = "run_split_raw_apollo_scrape_data"
    /\ s.pc = "start"
    /\ IF enrichment_results[s.item_id][NORMALIZE] = 0
       THEN /\ UpdateState(s.item_id, s.step_name, "FAILED", "error")
            /\ Return(s)
            /\ UNCHANGED normalized_people
       ELSE /\ normalized_people' = normalized_people \cup {s.item_id}
            /\ Continue(s, [s EXCEPT !.pc = "record"])
            /\ UNCHANGED <<workflow_states, audit>>
    /\ UNCHANGED <<batches, batch_size, company_workflow_states, enrichment_results,
                   company_enrichment_results, ticks, receivers, clay>>

SplitRecords(s) ==
    /\ s.fn = "run_split_raw_apollo_scrape_data"
    /\ s.pc = "record"
    /\ enrichment_results' = _record_result(enrichment_results, s.item_id, s.step_name)
    /\ Continue(s, [s EXCEPT !.pc = "complete"])
    /\ UNCHANGED <<batches, batch_size, workflow_states, company_workflow_states,
                   company_enrichment_results, normalized_people, ticks,
                   receivers, clay, audit>>

SplitCompletes(s) ==
    /\ s.fn = "run_split_raw_apollo_scrape_data"
    /\ s.pc = "complete"
    /\ UpdateState(s.item_id, s.step_name, "COMPLETED", "completed")
    /\ Continue(s, [s EXCEPT !.pc = "trigger"])
    /\ UNCHANGED <<batches, batch_size, company_workflow_states, enrichment_results,
                   company_enrichment_results, normalized_people, ticks, receivers,
                   clay>>

SplitTriggers(s) ==
    /\ s.fn = "run_split_raw_apollo_scrape_data"
    /\ s.pc = "trigger"
    /\ Return(s)
    /\ UNCHANGED <<batches, batch_size, workflow_states, company_workflow_states,
                   enrichment_results, company_enrichment_results, normalized_people,
                   ticks, receivers, clay, audit>>

-----------------------------------------------------------------------------
(* start_enrich_company_via_waterfall_in_clay (the entity sender) *)

\* Steps 1-3: look up company_id, read company_workflow_states, decide
EntitySenderReads(s) ==
    /\ s.fn = "start_enrich_company_via_waterfall_in_clay"
    /\ s.pc = "start"
    /\ LET company_id == _get_company_id_for_item(normalized_people, s.item_id)
           company_status == IF company_id = NULL THEN NULL
                             ELSE _get_company_workflow_status(company_workflow_states,
                                                               company_id, s.step_name)
       IN IF company_id = NULL
          THEN /\ UpdateState(s.item_id, s.step_name, "FAILED", "error")
               /\ Return(s)
          ELSE /\ Continue(s, [s EXCEPT
                     !.company_id = company_id,
                     !.pc = IF company_status \in {"COMPLETED", "IN_PROGRESS"}
                            THEN "skip" ELSE "acquire",
                     !.skipped = CASE company_status = "COMPLETED" ->
                                          "company_already_enriched"
                                   [] company_status = "IN_PROGRESS" ->
                                          "company_enrichment_in_progress"
                                   [] OTHER -> NULL])
               /\ UNCHANGED <<workflow_states, audit>>
    /\ UNCHANGED <<batches, batch_size, company_workflow_states, enrichment_results,
                   company_enrichment_results, normalized_people, ticks, receivers,
                   clay>>

\* Steps 3/3b: the company is COMPLETED or IN_PROGRESS: the item is COMPLETED (skipped)
EntitySenderSkips(s) ==
    /\ s.fn = "start_enrich_company_via_waterfall_in_clay"
    /\ s.pc = "skip"
    /\ UpdateState(s.item_id, s.step_name, "COMPLETED", s.skipped)
    /\ Return(s)
    /\ UNCHANGED <<batches, batch_size, company_workflow_states, enrichment_results,
                   company_enrichment_results, normalized_people, ticks, receivers,
                   clay>>

\* Step 4: "this is the first item for this company": the company is IN_PROGRESS
EntitySenderAcquires(s) ==
    /\ s.fn = "start_enrich_company_via_waterfall_in_clay"
    /\ s.pc = "acquire"
    /\ company_workflow_states' =
           _set_company_workflow_status(company_workflow_states, s.company_id,
                                        s.step_name, "IN_PROGRESS", s.item_id)
    /\ Continue(s, [s EXCEPT !.pc = "post"])
    /\ UNCHANGED <<batches, batch_size, workflow_states, enrichment_results,
                   company_enrichment_results, normalized_people, ticks,
                   receivers, clay, audit>>

\* a failure path that fails the item and leaves the company's row as it is
EntitySenderFails_keeps_entity(s) ==
    /\ s.fn = "start_enrich_company_via_waterfall_in_clay"
    /\ s.pc = "post"
    /\ Continue(s, [s EXCEPT !.pc = "fail_item"])
    /\ UNCHANGED <<batches, batch_size, workflow_states, company_workflow_states,
                   enrichment_results, company_enrichment_results, normalized_people,
                   ticks, receivers, clay, audit>>

\* no webhook_url, no company data, or the POST raises: the company is FAILED ...
EntitySenderFails(s) ==
    /\ s.fn = "start_enrich_company_via_waterfall_in_clay"
    /\ s.pc = "post"
    /\ company_workflow_states' =
           _set_company_workflow_status(company_workflow_states, s.company_id,
                                        s.step_name, "FAILED", "error")
    /\ Continue(s, [s EXCEPT !.pc = "fail_item"])
    /\ UNCHANGED <<batches, batch_size, workflow_states, enrichment_results,
                   company_enrichment_results, normalized_people, ticks,
                   receivers, clay, audit>>

\* ... and then the item is FAILED
EntitySenderFailsItem(s) ==
    /\ s.fn = "start_enrich_company_via_waterfall_in_clay"
    /\ s.pc = "fail_item"
    /\ UpdateState(s.item_id, s.step_name, "FAILED", "error")
    /\ Return(s)
    /\ UNCHANGED <<batches, batch_size, company_workflow_states, enrichment_results,
                   company_enrichment_results, normalized_people, ticks, receivers,
                   clay>>

\* requests.post(webhook_url) is accepted by Clay
EntitySenderPosts(s) ==
    /\ s.fn = "start_enrich_company_via_waterfall_in_clay"
    /\ s.pc = "post"
    /\ clay' = [clay EXCEPT ![s.item_id][s.step_name].sent = @ + 1]
    /\ Continue(s, [s EXCEPT !.pc = "set_in_progress"])
    /\ UNCHANGED <<batches, batch_size, workflow_states, company_workflow_states,
                   enrichment_results, company_enrichment_results, normalized_people,
                   ticks, receivers, audit>>

-----------------------------------------------------------------------------
(* The receivers: Clay answers a webhook call by calling the receiver *)

Proceed(r, next) == receivers' = (receivers \ {r}) \cup {next}
Finish(r) == receivers' = receivers \ {r}

\* receive_normalize_all_core_values is called: _record_result
ReceiveNormalize(item_id) ==
    /\ clay[item_id][NORMALIZE].sent > clay[item_id][NORMALIZE].answered
    /\ clay' = [clay EXCEPT ![item_id][NORMALIZE].answered = @ + 1]
    /\ enrichment_results' = _record_result(enrichment_results, item_id, NORMALIZE)
    /\ receivers' = receivers \cup
           {[item_id |-> item_id, step_name |-> NORMALIZE, company_id |-> NULL,
             call |-> clay[item_id][NORMALIZE].answered + 1, pc |-> "complete"]}
    /\ UNCHANGED <<batches, batch_size, workflow_states, company_workflow_states,
                   company_enrichment_results, normalized_people, ticks,
                   senders, audit>>

\* receive_enrich_company_via_waterfall_in_clay up to _record_company_result
EntityReceiverStarts(item_id) ==
    /\ _get_company_id_for_item(normalized_people, item_id) # NULL
    /\ clay' = [clay EXCEPT ![item_id][ENRICH].answered = @ + 1]
    /\ LET company_id == _get_company_id_for_item(normalized_people, item_id)
       IN /\ company_enrichment_results' =
                 _record_company_result(company_enrichment_results, company_id, ENRICH)
          /\ receivers' = receivers \cup
                 {[item_id |-> item_id, step_name |-> ENRICH, company_id |-> company_id,
                   call |-> clay[item_id][ENRICH].answered + 1, pc |-> "record_item"]}
    /\ UNCHANGED <<batches, batch_size, workflow_states, company_workflow_states,
                   enrichment_results, normalized_people, ticks, senders, audit>>

\* Clay answers the entity sender's webhook call
ReceiveEnrich(item_id) ==
    /\ clay[item_id][ENRICH].sent > clay[item_id][ENRICH].answered
    /\ EntityReceiverStarts(item_id)

\* the HTTP endpoint is called for an item although no webhook call is outstanding
\* (a Clay table that is re-run, a repeated delivery)
UnsolicitedEnrich(item_id) ==
    /\ clay[item_id][ENRICH].sent <= clay[item_id][ENRICH].answered
    /\ clay[item_id][ENRICH].answered < clay[item_id][ENRICH].sent + MaxUnsolicited
    /\ EntityReceiverStarts(item_id)

\* the entity receiver: "Also record in enrichment_results"
ReceiverRecordsItem(r) ==
    /\ r.pc = "record_item"
    /\ enrichment_results' = _record_result(enrichment_results, r.item_id, r.step_name)
    /\ Proceed(r, [r EXCEPT !.pc = "complete_company"])
    /\ UNCHANGED <<batches, batch_size, workflow_states, company_workflow_states,
                   company_enrichment_results, normalized_people, ticks,
                   senders, clay, audit>>

\* the entity receiver: "Set company_workflow_states to COMPLETED"
ReceiverCompletesCompany(r) ==
    /\ r.pc = "complete_company"
    /\ company_workflow_states' =
           _set_company_workflow_status(company_workflow_states, r.company_id,
                                        r.step_name, "COMPLETED", r.item_id)
    /\ Proceed(r, [r EXCEPT !.pc = "complete"])
    /\ UNCHANGED <<batches, batch_size, workflow_states, enrichment_results,
                   company_enrichment_results, normalized_people, ticks,
                   senders, clay, audit>>

\* every receiver: "Set state to COMPLETED"
ReceiverCompletes(r) ==
    /\ r.pc = "complete"
    /\ UpdateState(r.item_id, r.step_name, "COMPLETED", "completed")
    /\ Proceed(r, [r EXCEPT !.pc = "trigger"])
    /\ UNCHANGED <<batches, batch_size, company_workflow_states, enrichment_results,
                   company_enrichment_results, normalized_people, ticks, senders,
                   clay>>

\* every receiver: "Trigger orchestrator to advance to next step", and return
ReceiverTriggers(r) ==
    /\ r.pc = "trigger"
    /\ Finish(r)
    /\ UNCHANGED <<batches, batch_size, workflow_states, company_workflow_states,
                   enrichment_results, company_enrichment_results, normalized_people,
                   ticks, senders, clay, audit>>

-----------------------------------------------------------------------------
(* The receivers as their callers can call them: with any request body *)

\* what a receiver reads of its request: request.get("item_id"),
\* request.get("company_id"), and whether the rest of the body reports an error
NewRequest(item_id, company_id, error) ==
    [item_id |-> item_id, company_id |-> company_id, error |-> error]

\* the bodies a caller can send for an item: either id can be missing
RequestsFor(item_id) ==
    {NewRequest(i, c, e) : i \in {item_id, NULL}, c \in {company_of[item_id], NULL},
                           e \in BOOLEAN}

\* a receiver invocation that has accepted its request
NewReceiver(item_id, step_name, company_id, call, pc, error) ==
    [item_id |-> item_id, step_name |-> step_name, company_id |-> company_id,
     call |-> call, pc |-> pc, error |-> error]

\* a receiver that keeps the body of a request it rejects as a result record
Rejects_records(subject, step_name) ==
    /\ clay' = [clay EXCEPT ![subject][step_name].rejected =
                                 clay[subject][step_name].answered + 1]
    /\ enrichment_results' = _record_result(enrichment_results, subject, step_name)
    /\ UNCHANGED <<company_enrichment_results, receivers>>

\* the receiver returns {"success": False, "error": ...} at once; the caller notes
\* which of its calls about subject was rejected (the first, the second, ...)
Rejects(subject, step_name) ==
    /\ clay' = [clay EXCEPT ![subject][step_name].rejected =
                                 clay[subject][step_name].answered + 1]
    /\ UNCHANGED <<enrichment_results, company_enrichment_results, receivers>>

\* Clay answers the webhook call for subject with this request:
\* "if not item_id: return"; else _record_result
receive_normalize_all_core_values(subject, request) ==
    /\ clay[subject][NORMALIZE].sent > clay[subject][NORMALIZE].answered
    /\ IF request.item_id = NULL
       THEN Rejects(subject, NORMALIZE)
       ELSE /\ clay' = [clay EXCEPT ![subject][NORMALIZE].answered = @ + 1]
            /\ enrichment_results' =
                   _record_result(enrichment_results, request.item_id, NORMALIZE)
            /\ receivers' = receivers \cup
                   {NewReceiver(request.item_id, NORMALIZE, NULL,
                                clay[subject][NORMALIZE].answered + 1, "complete",
                                request.error)}
            /\ UNCHANGED company_enrichment_results
    /\ UNCHANGED <<batches, batch_size, workflow_states, company_workflow_states,
                   normalized_people, ticks, senders, audit>>

\* Clay delivers its call for item_id once more after the call has been answered
\* (a retry of the HTTP request, a table that is run again): _record_result
RepeatedNormalize(item_id) ==
    /\ clay[item_id][NORMALIZE].answered > 0
    /\ clay[item_id][NORMALIZE].sent <= clay[item_id][NORMALIZE].answered
    /\ clay[item_id][NORMALIZE].answered < clay[item_id][NORMALIZE].sent + MaxUnsolicited
    /\ clay' = [clay EXCEPT ![item_id][NORMALIZE].answered = @ + 1]
    /\ enrichment_results' = _record_result(enrichment_results, item_id, NORMALIZE)
    /\ receivers' = receivers \cup
           {NewReceiver(item_id, NORMALIZE, NULL, clay[item_id][NORMALIZE].answered + 1,
                        "complete", FALSE)}
    /\ UNCHANGED <<batches, batch_size, workflow_states, company_workflow_states,
                   company_enrichment_results, normalized_people, ticks, senders,
                   audit>>

\* the entity receiver is called about subject with this request:
\* "if not item_id: return"; company_id from the request or looked up;
\* "if not company_id: return"; else _record_company_result
receive_enrich_company_via_waterfall_in_clay(subject, request) ==
    /\ clay[subject][ENRICH].answered < clay[subject][ENRICH].sent + MaxUnsolicited
    /\ LET item_id == request.item_id
           company_id == IF item_id = NULL THEN NULL
                         ELSE IF request.company_id # NULL THEN request.company_id
                         ELSE _get_company_id_for_item(normalized_people, item_id)
       IN IF item_id = NULL \/ company_id = NULL
          THEN Rejects(subject, ENRICH)
          ELSE /\ clay' = [clay EXCEPT ![subject][ENRICH].answered = @ + 1]
               /\ company_enrichment_results' =
                      _record_company_result(company_enrichment_results, company_id,
                                             ENRICH)
               /\ receivers' = receivers \cup
                      {NewReceiver(item_id, ENRICH, company_id,
                                   clay[subject][ENRICH].answered + 1, "record_item",
                                   request.error)}
               /\ UNCHANGED enrichment_results
    /\ UNCHANGED <<batches, batch_size, workflow_states, company_workflow_states,
                   normalized_people, ticks, senders, audit>>

\* receive_normalized_company_domain(item_id, payload) is called for an item whose
\* webhook call is outstanding: _record_result
receive_normalized_company_domain(item_id, error) ==
    /\ clay[item_id][NORMALIZE_DOMAIN].sent > clay[item_id][NORMALIZE_DOMAIN].answered
    /\ clay' = [clay EXCEPT ![item_id][NORMALIZE_DOMAIN].answered = @ + 1]
    /\ enrichment_results' = _record_result(enrichment_results, item_id, NORMALIZE_DOMAIN)
    /\ receivers' = receivers \cup
           {NewReceiver(item_id, NORMALIZE_DOMAIN, NULL,
                        clay[item_id][NORMALIZE_DOMAIN].answered + 1, "complete_return",
                        error)}
    /\ UNCHANGED <<batches, batch_size, workflow_states, company_workflow_states,
                   company_enrichment_results, normalized_people, ticks, senders, audit>>

\* receive_normalized_company_domain: "Set state to COMPLETED", and return
ReceiverCompletesAndReturns(r) ==
    /\ r.pc = "complete_return"
    /\ UpdateState(r.item_id, r.step_name, "COMPLETED", "completed")
    /\ Finish(r)
    /\ UNCHANGED <<batches, batch_size, company_workflow_states, enrichment_results,
                   company_enrichment_results, normalized_people, ticks, senders,
                   clay>>

-----------------------------------------------------------------------------
(* The specification *)

\* a batch as its creation leaves it: one PENDING row for the item's first step
CreatedRow(item_id, blueprint, ts) ==
    NewRow(batch_items[item_id], item_id, blueprint[1], "PENDING", NULL, ts)

\* a row whose step was completed by its receiver (or by the synchronous step) and
\* then advanced by the sequencer at clock reading advanced
DoneRow(item_id, step_name, ts, advanced) ==
    [NewRow(batch_items[item_id], item_id, step_name, "COMPLETED", "completed", ts)
        EXCEPT !.advanced_at = <<advanced>>]

DoneAudit == [NoAudit EXCEPT !.claim_wins = 1, !.adv_wins = 1, !.spawns = 1]

NoClay == [i \in Items |-> [s \in StepNames |-> [sent |-> 0, answered |-> 0]]]
NoResults == [i \in Items |-> [s \in StepNames |-> 0]]
NoCompanyResults == [c \in Companies |-> [s \in StepNames |-> 0]]
NoCompanyRows == [c \in Companies |-> [s \in StepNames |-> NoRow]]

Quiet ==
    /\ ticks = [t \in Ticks |-> IdleTick]
    /\ senders = {}
    /\ receivers = {}

\* Batch b2 ran first, and its item i2 either went through the whole blueprint (so
\* the company both items belong to is already enriched) or failed in its first
\* sender. Batch b1 has just been created with its item i1.
Init ==
    /\ batches = [b \in BatchIds |-> MainBlueprint]
    /\ batch_size \in 1 .. MaxBatchSize
    /\ Quiet
    /\ \/ /\ workflow_states =
                <<DoneRow("i2", NORMALIZE, 1, 3), DoneRow("i2", SPLIT, 2, 4),
                  DoneRow("i2", ENRICH, 3, 4), CreatedRow("i1", MainBlueprint, 4)>>
          /\ audit = <<DoneAudit, DoneAudit, DoneAudit, NoAudit>>
          /\ company_workflow_states =
                [NoCompanyRows EXCEPT !["c1"][ENRICH] =
                                         [status |-> "COMPLETED", meta |-> "i2"]]
          /\ enrichment_results = [NoResults EXCEPT !["i2"] = [s \in StepNames |-> 1]]
          /\ company_enrichment_results = [NoCompanyResults EXCEPT !["c1"][ENRICH] = 1]
          /\ normalized_people = {"i2"}
          /\ clay = [NoClay EXCEPT !["i2"][NORMALIZE] = [sent |-> 1, answered |-> 1],
                                   !["i2"][ENRICH] = [sent |-> 1, answered |-> 1]]
       \/ /\ workflow_states =
                <<NewRow("b2", "i2", NORMALIZE, "FAILED", "error", 1),
                  CreatedRow("i1", MainBlueprint, 2)>>
          /\ audit = <<[DoneAudit EXCEPT !.adv_wins = 0], NoAudit>>
          /\ company_workflow_states = NoCompanyRows
          /\ enrichment_results = NoResults
          /\ company_enrichment_results = NoCompanyResults
          /\ normalized_people = {}
          /\ clay = NoClay

\* Only i2 exists, freshly created: the runs that lead to the histories above
InitAlone ==
    /\ batches = [b \in BatchIds |-> MainBlueprint]
    /\ batch_size \in 1 .. MaxBatchSize
    /\ Quiet
    /\ workflow_states = <<CreatedRow("i2", MainBlueprint, 1)>>
    /\ audit = <<NoAudit>>
    /\ company_workflow_states = NoCompanyRows
    /\ enrichment_results = NoResults
    /\ company_enrichment_results = NoCompanyResults
    /\ normalized_people = {}
    /\ clay = NoClay

\* the executor invocation of i2's entity step: spawned by the dispatcher, not yet running
WaitingSender == NewSender(modal_sender_fn(ENRICH), "i2", ENRICH, 1)

\* Two items of the same company meet at the entity step: the dispatcher has queued
\* i2's entity step and spawned its executor, which has not started yet (Modal
\* starts it whenever a container is free); i1, from the later batch, has completed
\* the split step, which the sequencer has not advanced yet.
InitEntity ==
    /\ batches = [b \in BatchIds |-> MainBlueprint]
    /\ batch_size \in 1 .. MaxBatchSize
    /\ ticks = [t \in Ticks |-> IdleTick]
    /\ senders = {WaitingSender}
    /\ receivers = {}
    /\ workflow_states =
          <<DoneRow("i2", NORMALIZE, 1, 3), DoneRow("i2", SPLIT, 2, 4),
            NewRow("b2", "i2", ENRICH, "QUEUED", NULL, 3),
            DoneRow("i1", NORMALIZE, 4, 6),
            NewRow("b1", "i1", SPLIT, "COMPLETED", "completed", 5)>>
    /\ audit = <<DoneAudit, DoneAudit, [DoneAudit EXCEPT !.adv_wins = 0],
                 DoneAudit, [DoneAudit EXCEPT !.adv_wins = 0]>>
    /\ company_workflow_states = NoCompanyRows
    /\ enrichment_results =
          [i \in Items |-> [s \in StepNames |-> IF s = ENRICH THEN 0 ELSE 1]]
    /\ company_enrichment_results = NoCompanyResults
    /\ normalized_people = {"i1", "i2"}
    /\ clay = [i \in Items |-> [NoClay[i] EXCEPT
                                   ![NORMALIZE] = [sent |-> 1, answered |-> 1]]]

\* i2 failed in its first sender; i1 has completed the split step, which the
\* sequencer has not advanced yet, so i1 has no row for the entity step
InitDirect ==
    /\ batches = [b \in BatchIds |-> MainBlueprint]
    /\ batch_size \in 1 .. MaxBatchSize
    /\ Quiet
    /\ workflow_states =
          <<NewRow("b2", "i2", NORMALIZE, "FAILED", "error", 1),
            DoneRow("i1", NORMALIZE, 2, 4),
            NewRow("b1", "i1", SPLIT, "COMPLETED", "completed", 3)>>
    /\ audit = <<[DoneAudit EXCEPT !.adv_wins = 0], DoneAudit,
                 [DoneAudit EXCEPT !.adv_wins = 0]>>
    /\ company_workflow_states = NoCompanyRows
    /\ enrichment_results = [NoResults EXCEPT !["i1"][NORMALIZE] = 1, !["i1"][SPLIT] = 1]
    /\ company_enrichment_results = NoCompanyResults
    /\ normalized_people = {"i1"}
    /\ clay = [NoClay EXCEPT !["i1"][NORMALIZE] = [sent |-> 1, answered |-> 1]]

\* Batch b2 runs DriftBlueprint and batch b1 ShortBlueprint. Each item has completed
\* the step before the unregistered one, which the sequencer has not advanced yet.
\* The entity step is in neither blueprint, so a row of it comes into being only
\* when the entity receiver is called for an item (for i2, which has been split).
InitDrift ==
    /\ batches = [b \in BatchIds |-> IF b = "b1" THEN ShortBlueprint ELSE DriftBlueprint]
    /\ batch_size \in 1 .. MaxBatchSize
    /\ Quiet
    /\ workflow_states =
          <<DoneRow("i2", NORMALIZE, 1, 4),
            NewRow("b1", "i1", NORMALIZE, "COMPLETED", "completed", 2),
            NewRow("b2", "i2", SPLIT, "COMPLETED", "completed", 3)>>
    /\ audit = <<DoneAudit, [DoneAudit EXCEPT !.adv_wins = 0],
                 [DoneAudit EXCEPT !.adv_wins = 0]>>
    /\ company_workflow_states = NoCompanyRows
    /\ enrichment_results =
          [NoResults EXCEPT !["i1"][NORMALIZE] = 1, !["i2"][NORMALIZE] = 1,
                            !["i2"][SPLIT] = 1]
    /\ company_enrichment_results = NoCompanyResults
    /\ normalized_people = {"i2"}
    /\ clay = [i \in Items |-> [NoClay[i] EXCEPT
                                   ![NORMALIZE] = [sent |-> 1, answered |-> 1]]]

\* the steps that have a receiver, and the blueprint of the batches that run them
CallbackSteps == StepNames \cup {NORMALIZE_DOMAIN}
CallbackBlueprint == <<NORMALIZE, NORMALIZE_DOMAIN>>

\* i2 failed in its first sender; batch b1 has just been created with its item i1.
InitCallback ==
    /\ batches = [b \in BatchIds |-> CallbackBlueprint]
    /\ batch_size \in 1 .. MaxBatchSize
    /\ Quiet
    /\ workflow_states =
          <<NewRow("b2", "i2", NORMALIZE, "FAILED", "error", 1),
            CreatedRow("i1", CallbackBlueprint, 2)>>
    /\ audit = <<[DoneAudit EXCEPT !.adv_wins = 0], NoAudit>>
    /\ company_workflow_states = NoCompanyRows
    /\ enrichment_results = [i \in Items |-> [s \in CallbackSteps |-> 0]]
    /\ company_enrichment_results = NoCompanyResults
    /\ normalized_people = {}
    /\ clay = [i \in Items |-> [s \in CallbackSteps |->
                                    [sent |-> 0, answered |-> 0, rejected |-> 0]]]

\* a blueprint that names its first step a second time
RepeatBlueprint == <<NORMALIZE, NORMALIZE_DOMAIN, NORMALIZE, SPLIT>>

\* as InitCallback, with batches that run RepeatBlueprint
InitRepeat ==
    /\ batches = [b \in BatchIds |-> RepeatBlueprint]
    /\ batch_size \in 1 .. MaxBatchSize
    /\ Quiet
    /\ workflow_states =
          <<NewRow("b2", "i2", NORMALIZE, "FAILED", "error", 1),
            CreatedRow("i1", RepeatBlueprint, 2)>>
    /\ audit = <<[DoneAudit EXCEPT !.adv_wins = 0], NoAudit>>
    /\ company_workflow_states = NoCompanyRows
    /\ enrichment_results = [i \in Items |-> [s \in CallbackSteps |-> 0]]
    /\ company_enrichment_results = NoCompanyResults
    /\ normalized_people = {}
    /\ clay = [i \in Items |-> [s \in CallbackSteps |->
                                    [sent |-> 0, answered |-> 0, rejected |-> 0]]]

\* i2 failed in its first sender and was never split. i1 is at the entity step:
\* its sender has acquired the company, made the webhook call and returned.
InitIntake ==
    /\ batches = [b \in BatchIds |-> MainBlueprint]
    /\ batch_size = 1
    /\ Quiet
    /\ workflow_states =
          <<NewRow("b2", "i2", NORMALIZE, "FAILED", "error", 1),
            DoneRow("i1", NORMALIZE, 2, 4), DoneRow("i1", SPLIT, 3, 5),
            NewRow("b1", "i1", ENRICH, "IN_PROGRESS", "sent", 4)>>
    /\ audit = <<[DoneAudit EXCEPT !.adv_wins = 0], DoneAudit, DoneAudit,
                 [DoneAudit EXCEPT !.adv_wins = 0]>>
    /\ company_workflow_states =
          [NoCompanyRows EXCEPT !["c1"][ENRICH] = [status |-> "IN_PROGRESS", meta |-> "i1"]]
    /\ enrichment_results = [NoResults EXCEPT !["i1"][NORMALIZE] = 1, !["i1"][SPLIT] = 1]
    /\ company_enrichment_results = NoCompanyResults
    /\ normalized_people = {"i1"}
    /\ clay = [i \in Items |-> [s \in StepNames |->
                  [sent |-> IF i = "i1" /\ s \in {NORMALIZE, ENRICH} THEN 1 ELSE 0,
                   answered |-> IF i = "i1" /\ s = NORMALIZE THEN 1 ELSE 0,
                   rejected |-> 0]]]

Next ==
    \/ \E t \in Ticks : orchestrator_main(t)
    \/ \E t \in Ticks : SeqFetch(t)
    \/ \E t \in Ticks : SeqItem(t)
    \/ \E t \in Ticks : SeqMark(t)
    \/ \E t \in Ticks : DispFetch(t)
    \/ \E t \in Ticks : DispClaim(t)
    \/ \E t \in Ticks : DispSkip(t)
    \/ \E t \in Ticks : DispSend(t)
    \/ \E s \in senders : AsyncSenderFails(s)
    \/ \E s \in senders : AsyncSenderPosts(s)
    \/ \E s \in senders : SenderSetsInProgress(s)
    \/ \E s \in senders : SplitReads(s)
    \/ \E s \in senders : SplitRecords(s)
    \/ \E s \in senders : SplitCompletes(s)
    \/ \E s \in senders : SplitTriggers(s)
    \/ \E s \in senders : EntitySenderReads(s)
    \/ \E s \in senders : EntitySenderSkips(s)
    \/ \E s \in senders : EntitySenderAcquires(s)
    \/ \E s \in senders : EntitySenderFails(s)
    \/ \E s \in senders : EntitySenderFailsItem(s)
    \/ \E s \in senders : EntitySenderPosts(s)
    \/ \E i \in Items : ReceiveNormalize(i)
    \/ \E i \in Items : ReceiveEnrich(i)
    \/ \E r \in receivers : ReceiverRecordsItem(r)
    \/ \E r \in receivers : ReceiverCompletesCompany(r)
    \/ \E r \in receivers : ReceiverCompletes(r)
    \/ \E r \in receivers : ReceiverTriggers(r)

Spec == Init /\ [][Next]_vars

SpecAlone == InitAlone /\ [][Next]_vars

\* the steps that can be taken once every item is at the entity step
NextEntity ==
    \/ \E t \in Ticks : orchestrator_main(t)
    \/ \E t \in Ticks : SeqFetch(t)
    \/ \E t \in Ticks : SeqItem(t)
    \/ \E t \in Ticks : SeqMark(t)
    \/ \E t \in Ticks : DispFetch(t)
    \/ \E t \in Ticks : DispClaim(t)
    \/ \E t \in Ticks : DispSkip(t)
    \/ \E t \in Ticks : DispSend(t)
    \/ \E s \in senders : EntitySenderReads(s)
    \/ \E s \in senders : EntitySenderSkips(s)
    \/ \E s \in senders : EntitySenderAcquires(s)
    \/ \E s \in senders : EntitySenderFails(s)
    \/ \E s \in senders : EntitySenderFailsItem(s)
    \/ \E s \in senders : EntitySenderPosts(s)
    \/ \E s \in senders : SenderSetsInProgress(s)
    \/ \E i \in Items : ReceiveEnrich(i)
    \/ \E r \in receivers : ReceiverRecordsItem(r)
    \/ \E r \in receivers : ReceiverCompletesCompany(r)
    \/ \E r \in receivers : ReceiverCompletes(r)
    \/ \E r \in receivers : ReceiverTriggers(r)

SpecEntity == InitEntity /\ [][NextEntity]_vars

\* the entity step with receiver calls that no sender asked for
NextDirect ==
    \/ NextEntity
    \/ \E i \in Items : UnsolicitedEnrich(i)

SpecDirect == InitDirect /\ [][NextDirect]_vars

\* the steps that can be taken when no step of a blueprint has work for a sender:
\* the runs of orchestrator_main, and calls of the entity receiver
NextDrift ==
    \/ \E t \in Ticks : orchestrator_main(t)
    \/ \E t \in Ticks : SeqFetch(t)
    \/ \E t \in Ticks : SeqItem(t)
    \/ \E t \in Ticks : SeqMark(t)
    \/ \E t \in Ticks : DispFetch(t)
    \/ \E t \in Ticks : DispClaim(t)
    \/ \E t \in Ticks : DispSkip(t)
    \/ \E t \in Ticks : DispSend(t)
    \/ \E i \in Items : UnsolicitedEnrich(i)
    \/ \E r \in receivers : ReceiverRecordsItem(r)
    \/ \E r \in receivers : ReceiverCompletesCompany(r)
    \/ \E r \in receivers : ReceiverCompletes(r)
    \/ \E r \in receivers : ReceiverTriggers(r)

SpecDrift == InitDrift /\ [][NextDrift]_vars

\* the runs of orchestrator_main over a store whose statements can fail, with two
\* rows to advance and then two rows to dispatch
NextFault ==
    \/ \E t \in Ticks : orchestrator_main(t)
    \/ \E t \in Ticks : SeqFetch(t)
    \/ \E t \in Ticks : SeqItem(t)
    \/ \E t \in Ticks : SeqItemRaises(t)
    \/ \E t \in Ticks : SeqMark(t)
    \/ \E t \in Ticks : SeqMarkRaises(t)
    \/ \E t \in Ticks : DispFetch(t)
    \/ \E t \in Ticks : DispClaim(t)
    \/ \E t \in Ticks : DispClaimRaises(t)
    \/ \E t \in Ticks : DispSkip(t)
    \/ \E t \in Ticks : DispSend(t)

SpecFault == InitDrift /\ [][NextFault]_vars

\* the runs of orchestrator_main, the plain asynchronous senders, and the receivers
\* called with whatever request their callers send
NextCallback ==
    \/ \E t \in Ticks : orchestrator_main(t)
    \/ \E t \in Ticks : SeqFetch(t)
    \/ \E t \in Ticks : SeqItem(t)
    \/ \E t \in Ticks : SeqMark(t)
    \/ \E t \in Ticks : DispFetch(t)
    \/ \E t \in Ticks : DispClaim(t)
    \/ \E t \in Ticks : DispSkip(t)
    \/ \E t \in Ticks : DispSend(t)
    \/ \E s \in senders : AsyncSenderFails(s)
    \/ \E s \in senders : AsyncSenderPosts(s)
    \/ \E s \in senders : SenderSetsInProgress(s)
    \/ \E i \in Items : \E request \in RequestsFor(i) :
          /\ request.company_id = NULL
          /\ receive_normalize_all_core_values(i, request)
    \/ \E i \in Items : \E error \in BOOLEAN : receive_normalized_company_domain(i, error)
    \/ \E r \in receivers : ReceiverCompletes(r)
    \/ \E r \in receivers : ReceiverCompletesAndReturns(r)
    \/ \E r \in receivers : ReceiverTriggers(r)

SpecCallback == InitCallback /\ [][NextCallback]_vars

\* the asynchronous senders and their receivers over a blueprint with a repeated step
SpecRepeat == InitRepeat /\ [][NextCallback]_vars

\* the first step of CallbackBlueprint with calls of its receiver that are repeated
NextRedeliver ==
    \/ \E t \in Ticks : orchestrator_main(t)
    \/ \E t \in Ticks : SeqFetch(t)
    \/ \E t \in Ticks : SeqItem(t)
    \/ \E t \in Ticks : SeqMark(t)
    \/ \E t \in Ticks : DispFetch(t)
    \/ \E t \in Ticks : DispClaim(t)
    \/ \E t \in Ticks : DispSkip(t)
    \/ \E t \in Ticks : DispSend(t)
    \/ \E s \in senders : AsyncSenderPosts(s)
    \/ \E s \in senders : SenderSetsInProgress(s)
    \/ \E i \in Items : receive_normalize_all_core_values(i, NewRequest(i, NULL, FALSE))
    \/ \E i \in Items : RepeatedNormalize(i)
    \/ \E r \in receivers : ReceiverCompletes(r)
    \/ \E r \in receivers : ReceiverTriggers(r)

SpecRedeliver == InitCallback /\ [][NextRedeliver]_vars

\* a step of run t of orchestrator_main in which every hand-off succeeds
\* (fn.spawn does not raise)
TickStep(t) ==
    \/ orchestrator_main(t)
    \/ SeqFetch(t)
    \/ SeqItem(t)
    \/ SeqMark(t)
    \/ DispFetch(t)
    \/ DispClaim(t)
    \/ DispSkip(t)
    \/ DispSend(t) /\ senders' # senders

\* a step of an asynchronous sender whose external call succeeds
SenderStep ==
    \/ \E s \in senders : AsyncSenderPosts(s)
    \/ \E s \in senders : SenderSetsInProgress(s)

\* the external system answers a call with a well-formed request that reports no
\* error, and the receiver runs
ReceiverStep ==
    \/ \E i \in Items : receive_normalize_all_core_values(i, NewRequest(i, NULL, FALSE))
    \/ \E i \in Items : receive_normalized_company_domain(i, FALSE)
    \/ \E r \in receivers : ReceiverCompletes(r)
    \/ \E r \in receivers : ReceiverCompletesAndReturns(r)
    \/ \E r \in receivers : ReceiverTriggers(r)

NextLive ==
    \/ \E t \in Ticks : TickStep(t)
    \/ SenderStep
    \/ ReceiverStep

\* the scheduler keeps starting runs and every run, sender and receiver goes on
\* to its end; every external call is answered
Fairness ==
    /\ \A t \in Ticks : WF_vars(TickStep(t))
    /\ WF_vars(SenderStep)
    /\ WF_vars(ReceiverStep)

\* i1 at the first step of a blueprint of two registered steps without duplicates
InitLive == InitCallback /\ batch_size = 1

SpecLive == InitLive /\ [][NextLive]_vars /\ Fairness

\* the entity receiver called with or without the ids in the request (the rest of
\* the body, which the receiver only stores, reports no error), for an item whose
\* webhook call is outstanding and for one that was never split, while no run of
\* orchestrator_main is under way
NextIntake ==
    \/ \E i \in Items : \E request \in RequestsFor(i) :
          /\ ~request.error
          /\ receive_enrich_company_via_waterfall_in_clay(i, request)
    \/ \E r \in receivers : ReceiverRecordsItem(r)
    \/ \E r \in receivers : ReceiverCompletesCompany(r)
    \/ \E r \in receivers : ReceiverCompletes(r)
    \/ \E r \in receivers : ReceiverTriggers(r)

SpecIntake == InitIntake /\ [][NextIntake]_vars

TypeOK ==
    /\ \A id \in RowIds(workflow_states) : workflow_states[id].status \in WorkflowStatus
    /\ Len(audit) = Len(workflow_states)

-----------------------------------------------------------------------------
(* The claims *)

\* the row a run of orchestrator_main is working on
Held(t) == ticks[t].items[ticks[t].idx]

\* run t makes its call update_state_to_queued in this step
Claims(t) == ticks[t].pc = "disp_claim" /\ ticks'[t].pc # "disp_claim"

\* C1: of the calls update_state_to_queued that concurrent runs make on the same
\* PENDING row exactly one returns true: a call returns true exactly when no call
\* on the row has returned true before, it then finds the row PENDING and leaves it
\* QUEUED, and a call that returns false leaves the table as it is.
C1_ExactlyOneClaimWins ==
    [][\A t \in Ticks : Claims(t) =>
          LET id == Held(t)
              queued == ticks'[t].pc = "disp_send"
          IN /\ queued <=> audit[id].claim_wins = 0
             /\ audit'[id].claim_wins = 1
             /\ queued => /\ workflow_states[id].status = "PENDING"
                           /\ workflow_states'[id].status = "QUEUED"
             /\ ~queued => workflow_states' = workflow_states]_vars

\* two runs have called update_state_to_queued on the same row: one got true and is
\* about to dispatch, the other got false, and the row is QUEUED
C1_BothCalled ==
    \E t1, t2 \in Ticks :
        /\ ticks[t1].pc = "disp_send"
        /\ ticks[t2].pc = "disp_skip"
        /\ Held(t1) = Held(t2)
        /\ workflow_states[Held(t1)].status = "QUEUED"

\* C2: of the overlapping dispatcher runs that selected the same PENDING row at most
\* one invokes the executor for it; the run whose claim fails skips the row silently:
\* it invokes no executor, writes nothing, and counts the row neither as processed
\* nor as failed.
C2_AtMostOneExecutor ==
    [][/\ \A id \in RowIds(workflow_states') : audit'[id].spawns <= 1
       /\ \A t \in Ticks :
             \/ Claims(t) /\ ticks'[t].pc = "disp_skip"
             \/ ticks[t].pc = "disp_skip" /\ ticks'[t] # ticks[t]
             => /\ senders' = senders
                /\ ticks'[t].dispatcher.processed <= ticks[t].dispatcher.processed
                /\ ticks'[t].dispatcher.failed <= ticks[t].dispatcher.failed
                /\ ticks'[t].sequencer.errors <= ticks[t].sequencer.errors
                /\ Claims(t) => ticks'[t].dispatcher = ticks[t].dispatcher
                /\ ~Claims(t) => workflow_states' = workflow_states]_vars

\* the run that won the claim has invoked the executor, the other run is skipping
C2_LoserSkips ==
    \E t \in Ticks :
        /\ ticks[t].pc = "disp_skip"
        /\ audit[Held(t)].spawns = 1
        /\ \E s \in senders : s.item_id = workflow_states[Held(t)].item_id

\* the status changes the code makes: the dispatcher's claim, the sender's write
\* after the external call, the receiver's and the synchronous step's and the
\* skipping entity sender's COMPLETED, the failing sender's FAILED, and the sender's
\* IN_PROGRESS when the receiver's COMPLETED came first
CodeTransitions ==
    {<<"PENDING", "QUEUED">>, <<"QUEUED", "IN_PROGRESS">>, <<"QUEUED", "COMPLETED">>,
     <<"QUEUED", "FAILED">>, <<"IN_PROGRESS", "COMPLETED">>,
     <<"COMPLETED", "IN_PROGRESS">>}

\* the chain PENDING -> QUEUED -> IN_PROGRESS -> {COMPLETED, FAILED}
ChainTransitions ==
    {<<"PENDING", "QUEUED">>, <<"QUEUED", "IN_PROGRESS">>,
     <<"IN_PROGRESS", "COMPLETED">>, <<"IN_PROGRESS", "FAILED">>}

\* every row has one of the five statuses, before and after the step, a new row is
\* PENDING, and every status change of the step is one of the given ones
StatusChangesWithin(transitions) ==
    /\ \A id \in RowIds(workflow_states) : workflow_states[id].status \in WorkflowStatus
    /\ \A id \in RowIds(workflow_states') :
          /\ workflow_states'[id].status \in WorkflowStatus
          /\ IF id \in RowIds(workflow_states)
             THEN \/ workflow_states'[id].status = workflow_states[id].status
                  \/ <<workflow_states[id].status, workflow_states'[id].status>>
                        \in transitions
             ELSE workflow_states'[id].status = "PENDING"

Marks(t) ==
    /\ ticks'[t] # ticks[t]
    /\ \/ ticks[t].pc = "seq_mark"
       \/ ticks[t].pc = "seq_item" /\ ticks'[t].pc # "seq_mark"

\* C4: of the concurrent or repeated calls mark_state_as_advanced on a row exactly
\* one returns true: a call returns true exactly when advanced_at is null, which is
\* exactly when no call on the row has returned true before; a call that returns
\* false changes nothing; and advanced_at, once set, keeps its value.
C4_ExactlyOneMarkWins ==
    [][/\ \A t \in Ticks : Marks(t) =>
             LET id == Held(t)
                 updated == ticks'[t].marked[2]
             IN /\ ticks'[t].marked[1] = id
                /\ updated <=> workflow_states[id].advanced_at = NullTime
                /\ updated <=> audit[id].adv_wins = 0
                /\ audit'[id].adv_wins = 1
                /\ workflow_states'[id].advanced_at # NullTime
                /\ ~updated => workflow_states' = workflow_states
       /\ \A id \in RowIds(workflow_states) :
             workflow_states[id].advanced_at # NullTime
             => workflow_states'[id].advanced_at = workflow_states[id].advanced_at]_vars

\* two runs have called mark_state_as_advanced on the same row: one got true, the
\* other false
C4_BothMarked ==
    \E t1, t2 \in Ticks : \E id \in RowIds(workflow_states) :
        /\ ticks[t1].marked = <<id, TRUE>>
        /\ ticks[t2].marked = <<id, FALSE>>
        /\ audit[id].adv_wins = 1

\* the rows of the same (batch_id, item_id, step_name) as row id
Twins(rows, id) == RowsOf(rows, rows[id].batch_id, rows[id].item_id, rows[id].step_name)

\* run t takes a step of the sequencer loop on the row it holds
Advances(t) == ticks[t].pc \in {"seq_item", "seq_mark"} /\ ticks'[t] # ticks[t]

\* C5: however the sequencer runs overlap or repeat on a COMPLETED row, there is
\* never more than one row of a (batch, item, step), and a run that works on a row
\* that is already advanced has no effect: it writes nothing and invokes nothing.
C5_NoSecondSuccessor ==
    [][/\ \A id \in RowIds(workflow_states') : Twins(workflow_states', id) = {id}
       /\ \A t \in Ticks :
             Advances(t) /\ workflow_states[Held(t)].advanced_at # NullTime
             => /\ workflow_states' = workflow_states
                /\ senders' = senders
                /\ audit' = audit]_vars

\* a run has called spawn_next_step for a row that another run had advanced before
C5_LateRun ==
    \E t \in Ticks :
        /\ ticks[t].pc = "seq_mark"
        /\ ~ticks[t].spawned
        /\ workflow_states[Held(t)].advanced_at # NullTime
        /\ audit[Held(t)].adv_wins = 1

\* run t makes its call spawn_next_step in this step
Spawns(t) == ticks[t].pc = "seq_item" /\ ticks'[t].pc = "seq_mark"

\* the step after the step of row id in the blueprint of its batch
NextStepOf(id) ==
    LET row == workflow_states[id]
        blueprint == get_batch_blueprint(batches, row.batch_id)
    IN blueprint[blueprint_index(blueprint, row.step_name) + 1]

\* C6: a call spawn_next_step returns true exactly when the table has no row of the
\* (batch_id, item_id, step_name); it then adds one PENDING row and leaves all
\* others alone; a call that returns false leaves the table, and with it the
\* existing row's status, meta and advanced_at, as it is; after either there is
\* exactly one such row.
C6_SpawnTwice ==
    [][\A t \in Ticks : Spawns(t) =>
          LET row == workflow_states[Held(t)]
              before == RowsOf(workflow_states, row.batch_id, row.item_id,
                               NextStepOf(Held(t)))
              after == RowsOf(workflow_states', row.batch_id, row.item_id,
                              NextStepOf(Held(t)))
          IN /\ ticks'[t].spawned <=> before = {}
             /\ Cardinality(after) = 1
             /\ ticks'[t].spawned
                => /\ after = {Len(workflow_states) + 1}
                   /\ workflow_states'[Len(workflow_states) + 1].status = "PENDING"
                   /\ \A id \in RowIds(workflow_states) :
                         workflow_states'[id] = workflow_states[id]
             /\ ~ticks'[t].spawned => workflow_states' = workflow_states]_vars

\* the second call has returned false for a row that is no longer as the first call
\* made it
C6_SecondCall ==
    \E t \in Ticks :
        /\ ticks[t].pc = "seq_mark"
        /\ ~ticks[t].spawned
        /\ \E id \in RowIds(workflow_states) :
              /\ workflow_states[id].batch_id = workflow_states[Held(t)].batch_id
              /\ workflow_states[id].item_id = workflow_states[Held(t)].item_id
              /\ workflow_states[id].step_name = NextStepOf(Held(t))
              /\ workflow_states[id].status = "COMPLETED"
              /\ workflow_states[id].advanced_at # NullTime

\* C7: there is never more than one row of a (batch_id, item_id, step_name), however
\* the sequencer's spawn_next_step and the senders' and receivers' _update_state
\* (which inserts the row when there is none) interleave; and no step deletes a
\* row: the table only grows and a row keeps its (batch_id, item_id, step_name).
C7_OneRowPerTriple ==
    [][/\ \A id \in RowIds(workflow_states) : Twins(workflow_states, id) = {id}
       /\ \A id \in RowIds(workflow_states') : Twins(workflow_states', id) = {id}
       /\ Len(workflow_states') >= Len(workflow_states)
       /\ \A id \in RowIds(workflow_states) :
             /\ workflow_states'[id].batch_id = workflow_states[id].batch_id
             /\ workflow_states'[id].item_id = workflow_states[id].item_id
             /\ workflow_states'[id].step_name = workflow_states[id].step_name]_vars

\* a receiver's _update_state has inserted the row of i1's entity step (no run has
\* claimed it), and then the sequencer's spawn_next_step has found it there
C7_UpsertThenSpawn ==
    \E t \in Ticks : \E id \in RowIds(workflow_states) :
        /\ ticks[t].pc = "seq_mark"
        /\ ~ticks[t].spawned
        /\ workflow_states[Held(t)].step_name = SPLIT
        /\ workflow_states[id].item_id = workflow_states[Held(t)].item_id
        /\ workflow_states[id].step_name = ENRICH
        /\ workflow_states[id].status = "COMPLETED"
        /\ audit[id].claim_wins = 0

\* the items whose sender has made the external call of the entity step
Callers == {i \in Items : clay[i][ENRICH].sent > 0}

\* C8: of the items that resolve to the same company and request the same entity
\* step at most one makes the external call, and an item whose sender has returned
\* COMPLETED without making the call carries a skip reason.
C8_OneExternalCall ==
    /\ Cardinality(Callers) <= 1
    /\ \A id \in RowIds(workflow_states) :
          /\ workflow_states[id].step_name = ENRICH
          /\ workflow_states[id].status = "COMPLETED"
          /\ workflow_states[id].item_id \notin Callers
          => workflow_states[id].meta \in {"company_already_enriched",
                                           "company_enrichment_in_progress"}

\* a sender takes Step 4 of the entity sender in this step
Acquires(s) == s.pc = "acquire" /\ s \notin senders'

\* C9: no sender writes IN_PROGRESS to a company_workflow_states row that is
\* IN_PROGRESS or COMPLETED when the write is made.
C9_NoSecondInProgress ==
    [][\A s \in senders : Acquires(s) =>
          /\ company_workflow_states'[s.company_id][s.step_name].status = "IN_PROGRESS"
          /\ company_workflow_states[s.company_id][s.step_name].status
                \notin {"IN_PROGRESS", "COMPLETED"}]_vars

\* the first step and the second step of the blueprint [A, B, C] of i1's batch
StepA(id) ==
    /\ workflow_states[id].item_id = "i1"
    /\ workflow_states[id].step_name = MainBlueprint[1]

RowsB(rows) == RowsOf(rows, "b1", "i1", MainBlueprint[2])

\* C10: blueprint [A, B, C], an item with row A only. The sequencer run that works
\* on the COMPLETED row A leaves exactly one row B, which is PENDING when the run
\* made it, and has set A's advanced_at when it leaves A; there is never a second
\* row B; and no sequencer run selects a row whose advanced_at is set, so A is not
\* selected again.
C10_AdvanceOnce ==
    [][/\ Cardinality(RowsB(workflow_states')) <= 1
       /\ \A t \in Ticks :
             /\ Spawns(t) /\ StepA(Held(t))
                => /\ Cardinality(RowsB(workflow_states')) = 1
                   /\ RowsB(workflow_states) = {}
                      => \A id \in RowsB(workflow_states') :
                            workflow_states'[id].status = "PENDING"
             /\ Marks(t) /\ StepA(Held(t))
                => /\ workflow_states'[Held(t)].advanced_at # NullTime
                   /\ Cardinality(RowsB(workflow_states')) = 1
             /\ ticks[t].pc = "seq_fetch"
                => \A k \in 1 .. Len(ticks'[t].items) :
                      /\ workflow_states[ticks'[t].items[k]].status = "COMPLETED"
                      /\ workflow_states[ticks'[t].items[k]].advanced_at = NullTime]_vars

\* A is COMPLETED and advanced, and a later sequencer run, whose limit had room
\* for two rows, has selected the COMPLETED row B alone
C10_LaterRun ==
    \E t \in Ticks : \E a \in RowIds(workflow_states) :
        /\ StepA(a)
        /\ workflow_states[a].status = "COMPLETED"
        /\ workflow_states[a].advanced_at # NullTime
        /\ batch_size >= 2
        /\ ticks[t].pc = "seq_item"
        /\ Len(ticks[t].items) = 1
        /\ Held(t) \in RowsB(workflow_states)

\* the step of row id is the last of the blueprint of its batch
LastStep(id) ==
    LET row == workflow_states[id]
        blueprint == get_batch_blueprint(batches, row.batch_id)
    IN blueprint # <<>> /\ blueprint[Len(blueprint)] = row.step_name

\* run t takes the loop body of the sequencer for the row it holds
Visits(t) == ticks[t].pc = "seq_item" /\ ticks'[t] # ticks[t]

\* C11: when the step of the COMPLETED row a sequencer run works on is the last of
\* the blueprint, the run leaves the row with advanced_at set, adds no row and
\* changes no row's status, and counts the item as finished (not as advanced, not
\* as an error).
C11_LastStepFinishes ==
    [][\A t \in Ticks : Visits(t) /\ LastStep(Held(t)) =>
          /\ workflow_states[Held(t)].status \in {"COMPLETED", "IN_PROGRESS"}
          /\ workflow_states'[Held(t)].advanced_at # NullTime
          /\ Len(workflow_states') = Len(workflow_states)
          /\ \A id \in RowIds(workflow_states) :
                workflow_states'[id].status = workflow_states[id].status
          /\ ticks'[t].pc # "seq_mark"
          /\ ticks'[t].sequencer =
                [ticks[t].sequencer EXCEPT !.processed = @ + 1, !.finished = @ + 1]]_vars

\* a run has finished i1 at its last step: its call mark_state_as_advanced on the
\* row of the last step returned true and the run is on its way to the dispatcher
C11_Finished ==
    \E t \in Ticks : \E id \in RowIds(workflow_states) :
        /\ LastStep(id)
        /\ workflow_states[id].item_id = "i1"
        /\ ticks[t].marked = <<id, TRUE>>
        /\ ticks[t].pc = "disp_fetch"
        /\ ticks[t].sequencer.finished = 1

\* the step of row id does not occur in the blueprint of its batch
Drifted(id) ==
    LET row == workflow_states[id]
        blueprint == get_batch_blueprint(batches, row.batch_id)
    IN \A k \in 1 .. Len(blueprint) : blueprint[k] # row.step_name

\* C12: when the step of the COMPLETED row a sequencer run works on does not occur
\* in the blueprint of the batch, the run leaves the row with advanced_at set, adds
\* no row and changes no status, and does not raise: it counts the item as finished
\* and not as an error; and no run selects a row whose advanced_at is set, so the
\* row is not selected again.
C12_DriftedStepFinishes ==
    [][\A t \in Ticks :
          /\ (Visits(t) /\ Drifted(Held(t))) =>
                /\ workflow_states[Held(t)].status = "COMPLETED"
                /\ workflow_states'[Held(t)].advanced_at # NullTime
                /\ Len(workflow_states') = Len(workflow_states)
                /\ \A id \in RowIds(workflow_states) :
                      workflow_states'[id].status = workflow_states[id].status
                /\ ticks'[t].pc # "seq_mark"
                /\ ticks'[t].sequencer =
                      [ticks[t].sequencer EXCEPT !.processed = @ + 1,
                                                 !.finished = @ + 1]
          /\ (ticks[t].pc = "seq_fetch") =>
                \A k \in 1 .. Len(ticks'[t].items) :
                    workflow_states[ticks'[t].items[k]].advanced_at = NullTime]_vars

\* a run has selected the row of a step outside the blueprint alone, its call
\* mark_state_as_advanced on it returned true, and the other run has found nothing
\* to advance
C12_Marked ==
    \E t1, t2 \in Ticks : \E id \in RowIds(workflow_states) :
        /\ Drifted(id)
        /\ workflow_states[id].status = "COMPLETED"
        /\ ticks[t1].marked = <<id, TRUE>>
        /\ ticks[t1].pc = "disp_fetch"
        /\ ticks[t1].sequencer = [NoSeqResults EXCEPT !.processed = 1, !.finished = 1]
        /\ ticks[t2].pc = "disp_fetch"
        /\ ticks[t2].sequencer = NoSeqResults

\* the step of row id is the one without a registered executor
Unroutable(id) == workflow_states[id].step_name = UNREGISTERED

\* run t takes dispatch_to_modal for the row it has claimed
Hands(t) == ticks[t].pc = "disp_send" /\ ticks'[t] # ticks[t]

\* C16: when a dispatcher run has claimed a row whose step has no registered
\* executor, its dispatch leaves the row QUEUED and the table as it is, invokes no
\* executor, and counts the row as processed and skipped (not as dispatched, not as
\* failed); the row stays QUEUED ever after, no executor is ever invoked for it, and
\* no run selects it again, because a dispatcher run selects PENDING rows only.
C16_UnroutableStaysQueued ==
    [][/\ \A t \in Ticks :
             /\ (Hands(t) /\ Unroutable(Held(t))) =>
                   /\ workflow_states[Held(t)].status = "QUEUED"
                   /\ workflow_states' = workflow_states
                   /\ senders' = senders
                   /\ audit' = audit
                   /\ ticks'[t] =
                         NextItem([ticks[t] EXCEPT !.dispatcher.processed = @ + 1,
                                                   !.dispatcher.skipped = @ + 1],
                                  "disp_claim", "idle")
             /\ (ticks[t].pc = "disp_fetch") =>
                   \A k \in 1 .. Len(ticks'[t].items) :
                       workflow_states[ticks'[t].items[k]].status = "PENDING"
       /\ \A id \in RowIds(workflow_states) :
             (Unroutable(id) /\ workflow_states[id].status = "QUEUED") =>
                /\ workflow_states'[id].status = "QUEUED"
                /\ workflow_states'[id].meta = workflow_states[id].meta
                /\ audit'[id].spawns = 0
                /\ audit'[id].claim_wins = 1]_vars

\* a run has reported the first row it claimed as skipped and is at the second row
\* of its selection; the first row is QUEUED and no executor was invoked for it
C16_Reported ==
    \E t \in Ticks : \E id \in RowIds(workflow_states) :
        /\ ticks[t].pc = "disp_claim"
        /\ ticks[t].idx = 2
        /\ ticks[t].items[1] = id
        /\ ticks[t].dispatcher =
              [NoDispResults EXCEPT !.processed = 1, !.queued = 1, !.skipped = 1]
        /\ Unroutable(id)
        /\ workflow_states[id].status = "QUEUED"
        /\ audit[id].spawns = 0
        /\ senders = {}

\* the entity sender s takes Steps 1-3 (it reads), resp. writes its skip
Reads(s) ==
    /\ s.fn = "start_enrich_company_via_waterfall_in_clay"
    /\ s.pc = "start"
    /\ s \notin senders'

Skips(s) == s.pc = "skip" /\ s \notin senders'

\* the company row the entity sender s reads
CompanyRow(s) == company_workflow_states[company_of[s.item_id]][s.step_name]

\* the item's row of the step of sender s
ItemRows(rows, s) == RowsOf(rows, batch_items[s.item_id], s.item_id, s.step_name)

\* an entity sender that reads the company row with this status decides to skip with
\* this reason, and its skip takes the item's row from the status before to
\* COMPLETED with the skip reason in meta; neither step makes an external call or
\* writes the company row, and the sender returns after the skip
SkipsOn(status, before, reason, recorded) ==
    \A s \in senders :
        /\ (Reads(s) /\ s.item_id \in normalized_people /\ CompanyRow(s).status = status) =>
              /\ senders' = (senders \ {s}) \cup
                    {[s EXCEPT !.pc = "skip", !.company_id = company_of[s.item_id],
                               !.skipped = reason]}
              /\ workflow_states' = workflow_states
              /\ company_workflow_states' = company_workflow_states
              /\ clay' = clay
        /\ (Skips(s) /\ s.skipped = reason) =>
              /\ ItemRows(workflow_states, s) # {}
              /\ \A id \in ItemRows(workflow_states, s) :
                    /\ workflow_states[id].status = before
                    /\ workflow_states'[id].status = "COMPLETED"
                    /\ workflow_states'[id].meta = recorded
              /\ Len(workflow_states') = Len(workflow_states)
              /\ senders' = senders \ {s}
              /\ receivers' = receivers
              /\ company_workflow_states' = company_workflow_states
              /\ clay' = clay
              /\ clay[s.item_id][s.step_name].sent = 0

\* C13, as stated: when the company row is COMPLETED, the item's row goes from
\* PENDING to COMPLETED with meta.skipped = "entity_already_done", without an
\* external call and without a write to the company row.
C13_SkipFromPending ==
    [][SkipsOn("COMPLETED", "PENDING", "company_already_enriched",
               "entity_already_done")]_vars

\* C13, amended: when the company row is COMPLETED, the item's row, which the
\* dispatcher has claimed, goes from QUEUED to COMPLETED with meta.skipped =
\* "company_already_enriched", without an external call and without a write to the
\* company row.
C13_SkipFromQueued ==
    [][SkipsOn("COMPLETED", "QUEUED", "company_already_enriched",
               "company_already_enriched")]_vars

\* i1 was skipped at the entity step because i2 had enriched the company
C13_Skipped ==
    \E id \in RowIds(workflow_states) :
        /\ workflow_states[id].item_id = "i1"
        /\ workflow_states[id].step_name = ENRICH
        /\ workflow_states[id].status = "COMPLETED"
        /\ workflow_states[id].meta = "company_already_enriched"
        /\ audit[id].claim_wins = 1
        /\ clay["i1"][ENRICH].sent = 0
        /\ company_workflow_states["c1"][ENRICH] = [status |-> "COMPLETED", meta |-> "i2"]

\* C14: when an entity sender reads the company row as IN_PROGRESS, it marks the
\* item's row COMPLETED with the skip reason "company_enrichment_in_progress" in
\* meta, makes no external call and does not write the company row.
C14_SkipWhileInProgress ==
    [][SkipsOn("IN_PROGRESS", "QUEUED", "company_enrichment_in_progress",
               "company_enrichment_in_progress")]_vars

\* i1 was skipped at the entity step while i2's enrichment of the company is under
\* way
C14_SkippedWhileInProgress ==
    \E id \in RowIds(workflow_states) :
        /\ workflow_states[id].item_id = "i1"
        /\ workflow_states[id].step_name = ENRICH
        /\ workflow_states[id].status = "COMPLETED"
        /\ workflow_states[id].meta = "company_enrichment_in_progress"
        /\ clay["i1"][ENRICH].sent = 0
        /\ company_workflow_states["c1"][ENRICH] =
              [status |-> "IN_PROGRESS", meta |-> "i2"]
        /\ \A s \in senders : s.item_id # "i1"

\* C15: an entity sender that reads the company row as absent, FAILED or PENDING
\* goes on to Step 4, where it upserts the row to IN_PROGRESS with the item's id in
\* meta, having made no external call yet, and from there to the external call; and
\* an external call is made only by a sender that has taken Step 4, when the
\* company row exists.
C15_AcquireBeforeCall ==
    [][/\ \A s \in senders :
             /\ (/\ Reads(s)
                 /\ s.item_id \in normalized_people
                 /\ CompanyRow(s).status \notin {"COMPLETED", "IN_PROGRESS"}) =>
                   /\ senders' = (senders \ {s}) \cup
                         {[s EXCEPT !.pc = "acquire",
                                    !.company_id = company_of[s.item_id]]}
                   /\ company_workflow_states' = company_workflow_states
                   /\ clay' = clay
             /\ Acquires(s) =>
                   /\ company_workflow_states'[s.company_id][s.step_name] =
                         [status |-> "IN_PROGRESS", meta |-> s.item_id]
                   /\ clay[s.item_id][s.step_name].sent = 0
                   /\ clay' = clay
                   /\ workflow_states' = workflow_states
                   /\ senders' = (senders \ {s}) \cup {[s EXCEPT !.pc = "post"]}
       /\ \A i \in Items :
             (clay'[i][ENRICH].sent > clay[i][ENRICH].sent) =>
                \E s \in senders :
                    /\ s.item_id = i
                    /\ s.pc = "post"
                    /\ s \notin senders'
                    /\ CompanyRow(s).status # NULL]_vars

\* i2's sender failed at the entity step before i1's row was claimed, so i1's
\* sender read the company row as FAILED; it has set the row to IN_PROGRESS in its
\* own name and stands before the external call
C15_AcquiredAfterFailure ==
    \E a, b \in RowIds(workflow_states) : \E s \in senders :
        /\ workflow_states[a].item_id = "i2" /\ workflow_states[a].step_name = ENRICH
        /\ workflow_states[a].status = "FAILED"
        /\ workflow_states[b].item_id = "i1" /\ workflow_states[b].step_name = ENRICH
        /\ workflow_states[b].status = "QUEUED"
        /\ workflow_states[a].updated_at < workflow_states[b].updated_at
        /\ s.item_id = "i1"
        /\ s.pc = "post"
        /\ company_workflow_states["c1"][ENRICH] =
              [status |-> "IN_PROGRESS", meta |-> "i1"]
        /\ clay["i1"][ENRICH].sent = 0

\* C17: when the hand-off of a claimed row to its executor fails, the dispatcher
\* writes nothing: the row stays QUEUED and the run counts it as processed and
\* failed; no step of a run of orchestrator_main takes a row out of QUEUED, and a
\* QUEUED row for which no executor was invoked stays QUEUED.
C17_FailedHandOffStaysQueued ==
    [][/\ \A t \in Ticks :
             (Hands(t) /\ ~Unroutable(Held(t)) /\ senders' = senders) =>
                /\ workflow_states[Held(t)].status = "QUEUED"
                /\ workflow_states' = workflow_states
                /\ audit' = audit
                /\ ticks'[t] =
                      NextItem([ticks[t] EXCEPT !.dispatcher.processed = @ + 1,
                                                !.dispatcher.failed = @ + 1],
                               "disp_claim", "idle")
       /\ \A id \in RowIds(workflow_states) :
             (workflow_states[id].status = "QUEUED") =>
                /\ (ticks' # ticks) => workflow_states'[id].status = "QUEUED"
                /\ (audit[id].spawns = 0) => workflow_states'[id].status = "QUEUED"]_vars

\* the hand-off of i1's claimed row failed: the row is QUEUED, no executor was
\* invoked for it, and nothing is running
C17_Stuck ==
    /\ Quiet
    /\ \E id \in RowIds(workflow_states) :
          /\ workflow_states[id].item_id = "i1"
          /\ workflow_states[id].status = "QUEUED"
          /\ audit[id].claim_wins = 1
          /\ audit[id].spawns = 0

\* run t takes a step of its dispatcher
Dispatches(t) ==
    /\ ticks[t].pc \in {"disp_fetch", "disp_claim", "disp_skip", "disp_send"}
    /\ ticks'[t] # ticks[t]

\* C18: a step of a dispatcher run creates no row and changes no row's meta,
\* advanced_at or key; the only change it makes to a row is the claim of the row it
\* holds, from PENDING to QUEUED with updated_at set to the newest time of the
\* table; every other row keeps its status and its place in the order of
\* updated_at, and the steps other than the claim write nothing.
C18_DispatcherWritesQueuedOnly ==
    [][\A t \in Ticks : Dispatches(t) =>
          /\ Len(workflow_states') = Len(workflow_states)
          /\ (ticks[t].pc # "disp_claim") => workflow_states' = workflow_states
          /\ (ticks[t].pc = "disp_claim") =>
                \A id \in RowIds(workflow_states) :
                   /\ workflow_states'[id].meta = workflow_states[id].meta
                   /\ workflow_states'[id].advanced_at = workflow_states[id].advanced_at
                   /\ workflow_states'[id].batch_id = workflow_states[id].batch_id
                   /\ workflow_states'[id].item_id = workflow_states[id].item_id
                   /\ workflow_states'[id].step_name = workflow_states[id].step_name
                   /\ (workflow_states'[id].status # workflow_states[id].status) =>
                         /\ id = Held(t)
                         /\ workflow_states[id].status = "PENDING"
                         /\ workflow_states'[id].status = "QUEUED"
                         /\ \A j \in RowIds(workflow_states) \ {id} :
                               workflow_states'[j].updated_at
                                  < workflow_states'[id].updated_at
                   /\ \A j \in RowIds(workflow_states) :
                         (id # Held(t) /\ j # Held(t)) =>
                            ((workflow_states[id].updated_at
                                 < workflow_states[j].updated_at)
                             <=> (workflow_states'[id].updated_at
                                     < workflow_states'[j].updated_at))]_vars

\* a dispatcher run has claimed a row that is not the newest of the table by its
\* creation: the row is QUEUED, its meta and advanced_at are as they were created,
\* and its updated_at is the newest of the table
C18_Claimed ==
    \E t \in Ticks :
        /\ ticks[t].pc = "disp_send"
        /\ workflow_states[Held(t)].status = "QUEUED"
        /\ workflow_states[Held(t)].meta = NULL
        /\ workflow_states[Held(t)].advanced_at = NullTime
        /\ workflow_states[Held(t)].step_name = SPLIT
        /\ \A j \in RowIds(workflow_states) \ {Held(t)} :
              workflow_states[j].updated_at < workflow_states[Held(t)].updated_at

SeqPcs == {"seq_fetch", "seq_item", "seq_mark"}
DispPcs == {"disp_fetch", "disp_claim", "disp_skip", "disp_send"}

\* the step of row id has a next step in the blueprint of its batch
HasNextStep(id) == ~Drifted(id) /\ ~LastStep(id)

\* when no run of orchestrator_main is under way, the successor of every advanced
\* row has been claimed: no successor waits for the next run
NoLag ==
    (\A t \in Ticks : ticks[t].pc = "idle") =>
       \A id \in RowIds(workflow_states) :
          (workflow_states[id].advanced_at # NullTime /\ HasNextStep(id)) =>
             \E n \in RowIds(workflow_states) :
                /\ workflow_states[n].batch_id = workflow_states[id].batch_id
                /\ workflow_states[n].item_id = workflow_states[id].item_id
                /\ workflow_states[n].step_name = NextStepOf(id)
                /\ workflow_states[n].status # "PENDING"
                /\ audit[n].claim_wins = 1

\* the number of rows a fetch returns of cnt candidates
Selected(cnt) == IF cnt < batch_size THEN cnt ELSE batch_size

\* C19: in a run of orchestrator_main the dispatcher starts only when the loop of
\* the sequencer is over, and the run does not return to the sequencer; the
\* sequencer selects the COMPLETED rows without advanced_at and the dispatcher the
\* PENDING rows, each up to the limit; so the successor a run's sequencer spawns is
\* there for the same run's dispatcher, and whenever no run is under way the
\* successor of every advanced row has been claimed.
C19_SameRunPicksUp ==
    [][/\ NoLag
       /\ NoLag'
       /\ \A t \in Ticks :
             /\ (ticks[t].pc \in SeqPcs /\ ticks'[t].pc \notin SeqPcs) =>
                   /\ ticks'[t].pc = "disp_fetch"
                   /\ ticks[t].idx = Len(ticks[t].items)
             /\ (ticks[t].pc \in DispPcs) => ticks'[t].pc \in DispPcs \cup {"idle"}
             /\ (ticks[t].pc = "idle") => ticks'[t].pc \in {"idle", "seq_fetch"}
             /\ (ticks[t].pc = "seq_fetch" /\ ticks'[t] # ticks[t]) =>
                   Len(ticks'[t].items) =
                      Selected(Cardinality({id \in RowIds(workflow_states) :
                                              /\ workflow_states[id].status = "COMPLETED"
                                              /\ workflow_states[id].advanced_at = NullTime}))
             /\ (ticks[t].pc = "disp_fetch" /\ ticks'[t] # ticks[t]) =>
                   Len(ticks'[t].items) =
                      Selected(Cardinality({id \in RowIds(workflow_states) :
                                              workflow_states[id].status = "PENDING"}))]_vars

\* a run whose sequencer spawned the successor of i1's first step has claimed that
\* successor in its dispatcher, while the other run is idle
C19_SpawnedAndClaimed ==
    \E t1, t2 \in Ticks :
        /\ ticks[t1].pc = "disp_send"
        /\ ticks[t1].sequencer = [NoSeqResults EXCEPT !.processed = 1, !.advanced = 1]
        /\ ticks[t1].dispatcher.queued = 1
        /\ workflow_states[Held(t1)].item_id = "i1"
        /\ workflow_states[Held(t1)].step_name = SPLIT
        /\ workflow_states[Held(t1)].status = "QUEUED"
        /\ t2 # t1
        /\ ticks[t2].pc = "idle"

\* sender s makes its external call, resp. takes its last statement
Posts(s) ==
    /\ s \notin senders'
    /\ clay'[s.item_id][s.step_name].sent > clay[s.item_id][s.step_name].sent

Wraps(s) == s.pc = "set_in_progress" /\ s \notin senders'

Starts(r) ==
    /\ r \in receivers' \ receivers
    /\ \A q \in receivers : [q EXCEPT !.pc = r.pc] # r

\* receiver r writes the item's status in this step
Settles(r) == r.pc \in {"complete", "complete_return"} /\ r \notin receivers'

\* the item's row of the step of receiver r
ReceiverRows(rows, r) == RowsOf(rows, batch_items[r.item_id], r.item_id, r.step_name)

\* C21: a receiver call with an accepted request appends one result record for the
\* item and step, and then sets the item's row to COMPLETED, or to FAILED when the
\* request reports an error.
C21_ReceiverSettles ==
    [][/\ \A r \in receivers' :
             (Starts(r) /\ r.pc \in {"complete", "complete_return"}) =>
                enrichment_results'[r.item_id][r.step_name] =
                   enrichment_results[r.item_id][r.step_name] + 1
       /\ \A r \in receivers : Settles(r) =>
             /\ enrichment_results[r.item_id][r.step_name] > 0
             /\ ReceiverRows(workflow_states', r) # {}
             /\ \A id \in ReceiverRows(workflow_states', r) :
                   workflow_states'[id].status =
                      IF r.error THEN "FAILED" ELSE "COMPLETED"]_vars

\* C22: every receiver, once it has written COMPLETED to the item's row, goes on to
\* issue the advancement trigger, and a receiver comes to issue the trigger only
\* from its COMPLETED write.
C22_TriggerAfterCompleted ==
    [][/\ \A r \in receivers : Settles(r) =>
             /\ \A id \in ReceiverRows(workflow_states', r) :
                   workflow_states'[id].status = "COMPLETED"
             /\ receivers' = (receivers \ {r}) \cup {[r EXCEPT !.pc = "trigger"]}
       /\ \A r \in receivers' \ receivers :
             (r.pc = "trigger") =>
                \E q \in receivers : Settles(q) /\ r = [q EXCEPT !.pc = "trigger"]]_vars

\* a call about item i at this step is rejected in this step
Rejected(i, step_name) == clay'[i][step_name].rejected # clay[i][step_name].rejected

\* C23: a receiver call whose request has no item_id, or (entity step) no company id
\* that can be resolved, is rejected before any write: the step appends no result
\* record, leaves workflow_states and company_workflow_states as they are and starts
\* no receiver work, so an IN_PROGRESS item stays IN_PROGRESS; an invocation that
\* does write has an item id and, at the entity step, a company id; and after a
\* rejection, while the webhook call is outstanding, the receiver can be called
\* with a valid request, and the invocation that then writes the status sets
\* COMPLETED.
C23_RejectedBeforeAnyWrite ==
    [][/\ \A i \in Items : \A step_name \in DOMAIN clay[i] :
             /\ Rejected(i, step_name) =>
                   /\ workflow_states' = workflow_states
                   /\ company_workflow_states' = company_workflow_states
                   /\ enrichment_results' = enrichment_results
                   /\ company_enrichment_results' = company_enrichment_results
                   /\ receivers' = receivers
                   /\ clay'[i][step_name].sent = clay[i][step_name].sent
                   /\ clay'[i][step_name].answered = clay[i][step_name].answered
             /\ (/\ clay[i][step_name].rejected > 0
                 /\ clay[i][step_name].sent > clay[i][step_name].answered
                 /\ step_name = ENRICH) =>
                   ENABLED receive_enrich_company_via_waterfall_in_clay(
                              i, NewRequest(i, company_of[i], FALSE))
       /\ \A r \in receivers' :
             /\ r.item_id \in Items
             /\ (r.step_name = ENRICH) => r.company_id \in Companies
       /\ \A r \in receivers : Settles(r) =>
             \A id \in ReceiverRows(workflow_states', r) :
                workflow_states'[id].status = "COMPLETED"]_vars

\* the first call about i1 at the entity step was rejected while its webhook call
\* was outstanding, a later call was accepted and has completed the item and the
\* company; a call about i2, which has no company, was rejected and wrote nothing
C23_RejectedThenCompleted ==
    /\ clay["i1"][ENRICH] = [sent |-> 1, answered |-> 1, rejected |-> 1]
    /\ clay["i2"][ENRICH] = [sent |-> 0, answered |-> 0, rejected |-> 1]
    /\ receivers = {}
    /\ company_enrichment_results["c1"][ENRICH] = 1
    /\ enrichment_results["i1"][ENRICH] = 1
    /\ enrichment_results["i2"][ENRICH] = 0
    /\ company_workflow_states["c1"][ENRICH] = [status |-> "COMPLETED", meta |-> "i1"]
    /\ \E id \in RowIds(workflow_states) :
          /\ workflow_states[id].item_id = "i1"
          /\ workflow_states[id].step_name = ENRICH
          /\ workflow_states[id].status = "COMPLETED"
    /\ \A id \in RowIds(workflow_states) :
          workflow_states[id].item_id = "i2" => workflow_states[id].step_name = NORMALIZE

\* sender s takes one of its failure paths for the item in this step
Fails(s) ==
    /\ s \notin senders'
    /\ \/ s.pc = "fail_item"
       \/ /\ s.pc = "start"
          /\ \A next \in senders' \ senders : next.item_id # s.item_id
          /\ clay' = clay
          /\ normalized_people' = normalized_people

\* C24: a sender whose external call (or whose preparation of it) fails leaves the
\* item's row FAILED with the error in meta, and no step of a run of
\* orchestrator_main, of a sender or of a receiver changes a row that is FAILED.
C24_FailedIsTerminal ==
    [][/\ \A s \in senders : Fails(s) =>
             /\ ItemRows(workflow_states', s) # {}
             /\ \A id \in ItemRows(workflow_states', s) :
                   /\ workflow_states'[id].status = "FAILED"
                   /\ workflow_states'[id].meta = "error"
       /\ \A id \in RowIds(workflow_states) :
             (workflow_states[id].status = "FAILED") =>
                /\ workflow_states'[id].status = "FAILED"
                /\ workflow_states'[id].meta = workflow_states[id].meta
                /\ workflow_states'[id].advanced_at = workflow_states[id].advanced_at]_vars

\* the positions of a run inside the loop of the sequencer, resp. the dispatcher
SeqLoop == {"seq_item", "seq_mark"}
DispLoop == {"disp_claim", "disp_skip", "disp_send"}

\* C25: a run of the sequencer or of the dispatcher leaves its loop only behind the
\* last row it selected, whatever happens while it handles a row: a failure with
\* one row does not keep the run from the rows that follow, and the sequencer is
\* followed by the dispatcher.
C25_FailuresStayWithTheirItem ==
    [][\A t \in Ticks :
          /\ (ticks[t].pc \in SeqLoop /\ ticks'[t].pc \notin SeqLoop) =>
                /\ ticks[t].idx = Len(ticks[t].items)
                /\ ticks'[t].pc = "disp_fetch"
                /\ ticks'[t].sequencer.processed = Len(ticks[t].items)
          /\ (ticks[t].pc \in DispLoop /\ ticks'[t].pc \notin DispLoop) =>
                ticks[t].idx = Len(ticks[t].items)]_vars

\* the number of records of every subject and step stays or grows by one
Grows(results, after) ==
    \A subject \in DOMAIN results : \A step_name \in DOMAIN results[subject] :
        after[subject][step_name] \in {results[subject][step_name],
                                       results[subject][step_name] + 1}

\* C26: no step removes a Result Record, and every accepted call of a receiver adds
\* one record for its subject and step to the records that are there, also when
\* records of that subject and step exist already.
C26_ResultRecordsAppendOnly ==
    [][/\ Grows(enrichment_results, enrichment_results')
       /\ Grows(company_enrichment_results, company_enrichment_results')
       /\ \A i \in Items :
             clay'[i][ENRICH].answered = clay[i][ENRICH].answered + 1 =>
                 \E r \in receivers' \ receivers :
                     company_enrichment_results'[r.company_id][ENRICH] =
                         company_enrichment_results[r.company_id][ENRICH] + 1
       /\ \A r \in receivers :
             (r.pc = "record_item" /\ r \notin receivers') =>
                 enrichment_results'[r.item_id][r.step_name] =
                     enrichment_results[r.item_id][r.step_name] + 1]_vars

\* two calls of the receiver for the same item and step have left two records in
\* either table
C26_SecondRecordAdded ==
    \E i \in Items :
        /\ clay[i][ENRICH].answered >= 2
        /\ enrichment_results[i][ENRICH] >= 2
        /\ company_enrichment_results[company_of[i]][ENRICH] >= 2

\* the rows a run can select: the PENDING ones, resp. the COMPLETED ones that are
\* not marked advanced
PendingRows == {id \in RowIds(workflow_states) : workflow_states[id].status = "PENDING"}
AdvanceableRows ==
    {id \in RowIds(workflow_states) : /\ workflow_states[id].status = "COMPLETED"
                                      /\ workflow_states[id].advanced_at = NullTime}

\* items are limit rows of E, or all of E when E has fewer, in the order of their
\* updated_at, and no row of E that is left out is older than a row of items
OldestOf(items, E, limit) ==
    /\ Len(items) = (IF Cardinality(E) < limit THEN Cardinality(E) ELSE limit)
    /\ \A k \in 1 .. Len(items) : items[k] \in E
    /\ \A k, j \in 1 .. Len(items) :
          k < j => /\ items[k] # items[j]
                   /\ workflow_states[items[k]].updated_at
                          <= workflow_states[items[j]].updated_at
    /\ \A id \in E \ {items[k] : k \in 1 .. Len(items)} :
          \A k \in 1 .. Len(items) :
              workflow_states[items[k]].updated_at <= workflow_states[id].updated_at

\* C27: the rows a run of the dispatcher selects are the batch_size PENDING rows
\* with the oldest updated_at (all of them when there are fewer), oldest first, and
\* the rows a run of the sequencer selects are the batch_size rows with the oldest
\* updated_at among the COMPLETED rows that are not marked advanced.
C27_OldestRowsUpToLimit ==
    [][\A t \in Ticks :
          /\ (ticks[t].pc = "seq_fetch" /\ ticks'[t].pc # "seq_fetch") =>
                IF AdvanceableRows = {} THEN ticks'[t].pc = "disp_fetch"
                ELSE /\ ticks'[t].pc = "seq_item"
                     /\ OldestOf(ticks'[t].items, AdvanceableRows, batch_size)
          /\ (ticks[t].pc = "disp_fetch" /\ ticks'[t].pc # "disp_fetch") =>
                IF PendingRows = {} THEN ticks'[t].pc = "idle"
                ELSE /\ ticks'[t].pc = "disp_claim"
                     /\ OldestOf(ticks'[t].items, PendingRows, batch_size)]_vars

\* a run of the dispatcher is at the first of the rows it selected, and a PENDING
\* row that is newer than they are was left for a later run
C27_NewerRowLeft ==
    \E t \in Ticks :
        /\ ticks[t].pc = "disp_claim"
        /\ ticks[t].idx = 1
        /\ Len(ticks[t].items) = batch_size
        /\ \E id \in PendingRows :
              \A k \in 1 .. Len(ticks[t].items) :
                  workflow_states[ticks[t].items[k]].updated_at
                      < workflow_states[id].updated_at

\* C28: a step of a run of orchestrator_main (of its sequencer or its dispatcher)
\* leaves every row alone that is IN_PROGRESS: status, meta, updated_at and
\* advanced_at stay as they are.
C28_RunsLeaveInProgressAlone ==
    [][\A id \in RowIds(workflow_states) :
          (workflow_states[id].status = "IN_PROGRESS" /\ ticks' # ticks) =>
              workflow_states'[id] = workflow_states[id]]_vars

\* row id is COMPLETED and not marked advanced, and the row of its next step exists:
\* a run of the sequencer has inserted the successor and the mark has not been made
Unmarked(id) ==
    /\ id \in AdvanceableRows
    /\ RowsOf(workflow_states, workflow_states[id].batch_id,
              workflow_states[id].item_id, NextStepOf(id)) # {}

\* C29: when the successor of a COMPLETED row exists and the row is not marked
\* advanced, a run that does not make the mark (mark_state_as_advanced fails)
\* writes nothing, so that the row stays COMPLETED with advanced_at null; a run
\* that selects while this row is the oldest of the rows to advance selects it;
\* its spawn_next_step reports that the successor exists and adds no row, and its
\* mark_state_as_advanced then sets advanced_at.
C29_MarkedByTheNextRun ==
    [][\A t \in Ticks :
          /\ (ticks[t].pc = "seq_fetch" /\ ticks'[t].pc # "seq_fetch") =>
                \A id \in AdvanceableRows :
                    (/\ Unmarked(id)
                     /\ \A other \in AdvanceableRows \ {id} :
                           workflow_states[id].updated_at
                               < workflow_states[other].updated_at)
                    => /\ ticks'[t].pc = "seq_item"
                       /\ ticks'[t].items[1] = id
          /\ (Advances(t) /\ Unmarked(Held(t))) =>
                /\ Len(workflow_states') = Len(workflow_states)
                /\ ticks[t].pc = "seq_item" =>
                      \/ /\ ticks'[t].pc = "seq_mark"
                         /\ ~ticks'[t].spawned
                         /\ workflow_states' = workflow_states
                      \/ /\ ticks'[t].sequencer.errors = ticks[t].sequencer.errors + 1
                         /\ workflow_states' = workflow_states
                /\ ticks[t].pc = "seq_mark" =>
                      \/ /\ workflow_states'[Held(t)].advanced_at # NullTime
                         /\ workflow_states'[Held(t)].status = "COMPLETED"
                         /\ audit'[Held(t)].adv_wins = 1
                      \/ /\ ticks'[t].sequencer.errors = ticks[t].sequencer.errors + 1
                         /\ workflow_states' = workflow_states]_vars

\* a run inserted the successor of its first row and failed to mark the row (it
\* counts one row as advanced and one error, and is at its second row); a later
\* call spawn_next_step of another run has reported that the successor exists, and
\* that run is about to mark the row, which has one successor
C29_SecondAttempt ==
    \E t, u \in Ticks :
        /\ ticks[u].pc = "seq_item"
        /\ ticks[u].idx = 2
        /\ ticks[u].sequencer = [processed |-> 1, advanced |-> 1, finished |-> 0,
                                 errors |-> 1]
        /\ ticks[t].pc = "seq_mark"
        /\ ~ticks[t].spawned
        /\ Held(t) = ticks[u].items[1]
        /\ Unmarked(Held(t))
        /\ audit[Held(t)].adv_wins = 0
        /\ Cardinality(RowsOf(workflow_states, workflow_states[Held(t)].batch_id,
                              workflow_states[Held(t)].item_id,
                              NextStepOf(Held(t)))) = 1

\* the first position of step_name in blueprint
FirstOccurrence(blueprint, step_name) ==
    CHOOSE k \in 1 .. Len(blueprint) :
        /\ blueprint[k] = step_name
        /\ \A j \in 1 .. k - 1 : blueprint[j] # step_name

\* the elements of blueprint that follow an occurrence of step_name other than
\* the first
AfterLaterOccurrence(blueprint, step_name) ==
    {blueprint[k + 1] : k \in {j \in 1 .. Len(blueprint) - 1 :
                                  /\ blueprint[j] = step_name
                                  /\ j # FirstOccurrence(blueprint, step_name)}}

\* C30: the step a run of the sequencer passes to spawn_next_step for a COMPLETED
\* row is the element of the batch's blueprint right after the first occurrence of
\* the row's step name, and a row comes into being only for that step: with a step
\* name that occurs twice, the element after the later occurrence gets a row only
\* if it also follows a first occurrence.
C30_SuccessorAfterFirstOccurrence ==
    [][/\ \A t \in Ticks : Spawns(t) =>
             LET row == workflow_states[Held(t)]
                 blueprint == batches[row.batch_id]
                 next_step == blueprint[FirstOccurrence(blueprint, row.step_name) + 1]
             IN /\ RowsOf(workflow_states', row.batch_id, row.item_id, next_step) # {}
                /\ \A id \in RowIds(workflow_states') \ RowIds(workflow_states) :
                      workflow_states'[id].step_name = next_step
       /\ \A id \in RowIds(workflow_states') \ RowIds(workflow_states) :
             \E t \in Ticks : Spawns(t)
       /\ \A id \in RowIds(workflow_states') :
             workflow_states'[id].step_name
                 \notin AfterLaterOccurrence(RepeatBlueprint, NORMALIZE)]_vars

\* an item has completed the repeated step and the step after its first
\* occurrence, the sequencer has marked both rows advanced, and the item has no
\* row of the step after the later occurrence
C30_LaterOccurrenceUnused ==
    \E i \in Items :
        /\ \E id \in RowsOf(workflow_states, batch_items[i], i, NORMALIZE) :
              /\ workflow_states[id].status = "COMPLETED"
              /\ workflow_states[id].advanced_at # NullTime
        /\ \E id \in RowsOf(workflow_states, batch_items[i], i, NORMALIZE_DOMAIN) :
              /\ workflow_states[id].status = "COMPLETED"
              /\ workflow_states[id].advanced_at # NullTime
        /\ RowsOf(workflow_states, batch_items[i], i, SPLIT) = {}

\* C31: a row that is COMPLETED stays COMPLETED in every step of its sender and of
\* its receiver; the sender's IN_PROGRESS write does not replace a COMPLETED that
\* the receiver wrote before it.
C31_CompletedStays ==
    [][\A id \in RowIds(workflow_states) :
          workflow_states[id].status = "COMPLETED" =>
              workflow_states'[id].status = "COMPLETED"]_vars

\* C32: every row that is marked advanced is COMPLETED.
C32_AdvancedIsCompleted ==
    \A id \in RowIds(workflow_states) :
        workflow_states[id].advanced_at # NullTime =>
            workflow_states[id].status = "COMPLETED"

\* the position of row id's step in the blueprint of its batch, 0 when it is not in it
PositionOf(id) ==
    blueprint_index(get_batch_blueprint(batches, workflow_states[id].batch_id),
                    workflow_states[id].step_name)

\* C33: a row that is marked advanced and whose step is in the blueprint of its
\* batch at a position that is not the last has a successor: the row of the same
\* batch and item for the next step of the blueprint exists.
C33_AdvancedHasSuccessor ==
    \A id \in RowIds(workflow_states) :
        LET row == workflow_states[id]
            blueprint == get_batch_blueprint(batches, row.batch_id)
        IN (/\ row.advanced_at # NullTime
            /\ PositionOf(id) > 0
            /\ PositionOf(id) < Len(blueprint))
           => RowsOf(workflow_states, row.batch_id, row.item_id,
                     blueprint[PositionOf(id) + 1]) # {}

\* a run has marked a row advanced that is not at the last position of its
\* blueprint, after a failed attempt had left the successor behind, or after its own
\* insert
C33_MarkedWithSuccessor ==
    \E t \in Ticks : \E id \in RowIds(workflow_states) :
        /\ ticks[t].marked = <<id, TRUE>>
        /\ workflow_states[id].advanced_at # NullTime
        /\ audit[id].adv_wins = 1
        /\ PositionOf(id) > 0
        /\ PositionOf(id) < Len(get_batch_blueprint(batches, workflow_states[id].batch_id))

\* the row of (item_id, step_name) has reached COMPLETED: it is COMPLETED, or it is
\* marked advanced, or a run of the sequencer that selected it as COMPLETED is
\* still working on it
ReachedCompleted(item_id, step_name) ==
    \E id \in RowsOf(workflow_states, batch_items[item_id], item_id, step_name) :
        \/ workflow_states[id].status = "COMPLETED"
        \/ workflow_states[id].advanced_at # NullTime
        \/ \E t \in Ticks : ticks[t].pc \in SeqLoop /\ Held(t) = id

\* the step before step_name in the blueprint of the item's batch has reached
\* COMPLETED, or step_name is the first step of the blueprint or is not in it
PredecessorCompleted(item_id, step_name) ==
    LET blueprint == get_batch_blueprint(batches, batch_items[item_id])
        k == blueprint_index(blueprint, step_name)
    IN k > 1 => ReachedCompleted(item_id, blueprint[k - 1])

\* C34: steps run in the order of the blueprint: a row of an item for the step at
\* position k+1 exists only if the item's row at position k has reached
\* COMPLETED, and an executor of step k+1 runs only then.
C34_BlueprintOrder ==
    /\ \A id \in RowIds(workflow_states) :
          PredecessorCompleted(workflow_states[id].item_id, workflow_states[id].step_name)
    /\ \A s \in senders : PredecessorCompleted(s.item_id, s.step_name)

\* C35: when runs keep being started, every hand-off succeeds and every external
\* call is answered by a successful receiver call, the row of the last step of the
\* blueprint of item i1 is eventually COMPLETED and marked advanced.
C35_ItemFinishes ==
    <>(\E id \in RowsOf(workflow_states, batch_items["i1"], "i1", NORMALIZE_DOMAIN) :
          /\ workflow_states[id].status = "COMPLETED"
          /\ workflow_states[id].advanced_at # NullTime)

\* what a row is apart from its updated_at
Apart(row) == [row EXCEPT !.updated_at = 0]

\* C36: the COMPLETED write of a receiver call for a row that is COMPLETED and marked
\* advanced leaves the row COMPLETED and advanced_at as it is, adds no row and
\* changes no other row; the row is not among the rows the sequencer selects, and
\* no run of the sequencer that starts later holds it. The call has added a result
\* record before.
C36_RepeatedCallKeepsAdvanced ==
    [][\A r \in receivers : \A id \in ReceiverRows(workflow_states, r) :
          (/\ Settles(r)
           /\ workflow_states[id].status = "COMPLETED"
           /\ workflow_states[id].advanced_at # NullTime)
          => /\ workflow_states'[id].status = "COMPLETED"
             /\ workflow_states'[id].advanced_at = workflow_states[id].advanced_at
             /\ Len(workflow_states') = Len(workflow_states)
             /\ \A other \in RowIds(workflow_states) \ {id} :
                   Apart(workflow_states'[other]) = Apart(workflow_states[other])
             /\ LET completed_items ==
                        fetch_completed_for_advancement(workflow_states',
                                                        Len(workflow_states'))
                IN \A k \in 1 .. Len(completed_items) : completed_items[k] # id
             /\ enrichment_results[r.item_id][r.step_name] >= r.call]_vars

\* the receiver of the first step has been called a second time for an item whose
\* row was COMPLETED and advanced, and has written COMPLETED: the row is advanced,
\* has been marked once, the item has two result records and one successor row
C36_CalledAgain ==
    \E id \in RowIds(workflow_states) :
        /\ workflow_states[id].step_name = NORMALIZE
        /\ workflow_states[id].status = "COMPLETED"
        /\ workflow_states[id].advanced_at # NullTime
        /\ audit[id].adv_wins = 1
        /\ enrichment_results[workflow_states[id].item_id][NORMALIZE] = 2
        /\ \E r \in receivers :
              /\ r.item_id = workflow_states[id].item_id
              /\ r.call = 2
              /\ r.pc = "trigger"
        /\ \A j \in RowIds(workflow_states) :
              workflow_states[j].updated_at <= workflow_states[id].updated_at
        /\ Cardinality(RowsOf(workflow_states, workflow_states[id].batch_id,
                              workflow_states[id].item_id, NORMALIZE_DOMAIN)) = 1

\* the reasons a sender writes to meta when it completes an item without the call
SkipReasons == {"company_already_enriched", "company_enrichment_in_progress"}

\* C37: every row that is COMPLETED and carries no skip reason in meta has at least
\* one result record of its item and step.
C37_CompletedHasResult ==
    \A id \in RowIds(workflow_states) :
        (/\ workflow_states[id].status = "COMPLETED"
         /\ workflow_states[id].meta \notin SkipReasons)
        => enrichment_results[workflow_states[id].item_id][workflow_states[id].step_name] > 0

\* i1 has completed the split step with a result record, and has completed the
\* entity step by a skip, without one
C37_RecordedAndSkipped ==
    /\ \E id \in RowsOf(workflow_states, "b1", "i1", SPLIT) :
          /\ workflow_states[id].status = "COMPLETED"
          /\ workflow_states[id].meta \notin SkipReasons
    /\ enrichment_results["i1"][SPLIT] = 1
    /\ \E id \in RowsOf(workflow_states, "b1", "i1", ENRICH) :
          /\ workflow_states[id].status = "COMPLETED"
          /\ workflow_states[id].meta \in SkipReasons
    /\ enrichment_results["i1"][ENRICH] = 0

\* run t takes a step of its sequencer in this step
SequencerStep(t) == ticks[t].pc \in {"seq_fetch"} \cup SeqLoop /\ ticks'[t] # ticks[t]

\* C38: a step of the sequencer of a run leaves status, meta and updated_at of every
\* row as they are; it changes advanced_at only from null and only of the row the
\* run holds, which it selected as COMPLETED, and the rows it adds are PENDING and
\* not marked advanced.
C38_SequencerWrites ==
    [][\A t \in Ticks : SequencerStep(t) =>
          /\ Len(workflow_states') >= Len(workflow_states)
          /\ \A id \in RowIds(workflow_states) :
                /\ [workflow_states'[id] EXCEPT !.advanced_at = NullTime]
                      = [workflow_states[id] EXCEPT !.advanced_at = NullTime]
                /\ workflow_states'[id].advanced_at # workflow_states[id].advanced_at
                   => /\ workflow_states[id].advanced_at = NullTime
                      /\ ticks[t].pc \in SeqLoop
                      /\ id = Held(t)
          /\ \A id \in RowIds(workflow_states') \ RowIds(workflow_states) :
                /\ workflow_states'[id].status = "PENDING"
                /\ workflow_states'[id].advanced_at = NullTime
          /\ (ticks[t].pc = "seq_fetch" /\ ticks'[t].pc = "seq_item") =>
                \A k \in 1 .. Len(ticks'[t].items) :
                    workflow_states[ticks'[t].items[k]].status = "COMPLETED"]_vars

\* a run of the sequencer has inserted a successor and marked the row it holds
\* while a sender or a receiver was at work on another row
C38_AdvancedBesideAWriter ==
    \E t \in Ticks : \E id \in RowIds(workflow_states) :
        /\ ticks[t].marked = <<id, TRUE>>
        /\ ticks[t].sequencer.advanced >= 1
        /\ workflow_states[id].advanced_at # NullTime
        /\ senders # {}

\* C39: no item is COMPLETED at the entity step with the skip reason "enrichment in
\* progress" while the row of its company for the step is FAILED.
C39_SkippedOnlyForLiveEntity ==
    \A id \in RowIds(workflow_states) :
        (/\ workflow_states[id].step_name = ENRICH
         /\ workflow_states[id].status = "COMPLETED"
         /\ workflow_states[id].meta = "company_enrichment_in_progress")
        => company_workflow_states[company_of[workflow_states[id].item_id]][ENRICH].status
              # "FAILED"

\* C40: an entity sender that has set the company's row IN_PROGRESS and then fails
\* (no webhook_url, no company data, the POST raises) first sets the company's row
\* FAILED and then, leaving that row alone, its item's row FAILED, and returns; a
\* sender that reads the company's row as FAILED is not skipped: it goes on to
\* Step 4 and its item is not COMPLETED by that step.
C40_FailureReleasesEntity ==
    [][\A s \in senders :
          /\ (s.pc = "post" /\ s \notin senders' /\ clay' = clay) =>
                /\ company_workflow_states'[s.company_id][s.step_name] =
                      [status |-> "FAILED", meta |-> "error"]
                /\ workflow_states' = workflow_states
                /\ senders' = (senders \ {s}) \cup {[s EXCEPT !.pc = "fail_item"]}
          /\ (s.pc = "fail_item" /\ s \notin senders') =>
                /\ \A id \in RowsOf(workflow_states', batch_items[s.item_id], s.item_id,
                                    s.step_name) :
                      /\ workflow_states'[id].status = "FAILED"
                      /\ workflow_states'[id].meta = "error"
                /\ RowsOf(workflow_states', batch_items[s.item_id], s.item_id,
                          s.step_name) # {}
                /\ company_workflow_states' = company_workflow_states
                /\ senders' = senders \ {s}
          /\ (/\ Reads(s)
              /\ s.item_id \in normalized_people
              /\ CompanyRow(s).status = "FAILED") =>
                /\ senders' = (senders \ {s}) \cup
                      {[s EXCEPT !.pc = "acquire", !.company_id = company_of[s.item_id]]}
                /\ workflow_states' = workflow_states]_vars

\* an item has failed at the entity step after its sender had acquired the company,
\* whose row is FAILED; the other item of the company was claimed later, and its
\* sender has read the row and stands before Step 4
C40_NextItemProceeds ==
    \E a, b \in RowIds(workflow_states) : \E s \in senders :
        /\ workflow_states[a].step_name = ENRICH /\ workflow_states[b].step_name = ENRICH
        /\ workflow_states[a].status = "FAILED"
        /\ workflow_states[b].status = "QUEUED"
        /\ workflow_states[a].updated_at < workflow_states[b].updated_at
        /\ s.item_id = workflow_states[b].item_id
        /\ s.pc = "acquire"
        /\ company_workflow_states["c1"][ENRICH] = [status |-> "FAILED", meta |-> "error"]

====
